---- MODULE Spec2Model ----
(***************************************************************************)
(* Project-Hive: the rule engine of the board game Hive (GameEngine,       *)
(* Player, the bug tiles and the hex utilities) as a state machine.        *)
(* One step of the machine is one mouse click handled by                   *)
(* GameEngine::CheckInputs.                                                *)
(***************************************************************************)
EXTENDS Integers, Sequences, FiniteSets, TLC

VARIABLES gameMap, borderOfHive, possibleMovesOfSelectedTile,
          isPlayerTileSelected, indexOfPlayerTileSelected,
          pointerToSelectedTile, originalCordsOfSelectedTile,
          turn, idOfPlayerOnTurn, players, gameInterupted, messageToDisplay,
          erasedIteratorUsed,
          windowSize, mousePosition,
          script, clicks, last

engineVars == <<gameMap, borderOfHive, possibleMovesOfSelectedTile,
                isPlayerTileSelected, indexOfPlayerTileSelected,
                pointerToSelectedTile, originalCordsOfSelectedTile,
                turn, idOfPlayerOnTurn, players, gameInterupted,
                messageToDisplay, erasedIteratorUsed>>

vars == <<gameMap, borderOfHive, possibleMovesOfSelectedTile,
          isPlayerTileSelected, indexOfPlayerTileSelected,
          pointerToSelectedTile, originalCordsOfSelectedTile,
          turn, idOfPlayerOnTurn, players, gameInterupted, messageToDisplay,
          erasedIteratorUsed, windowSize, mousePosition, script, clicks, last>>

-----------------------------------------------------------------------------
(* Program constants.                                                      *)

HEXAGON_VERTICAL_COUNT == 12
DIFFERENT_PIECES_COUNT == 5
SIZE_OF_AXIAL_VECTORS == 6
INT_MAX == 2147483647
startingPlayer == 0

TOLERANCE == 5
FONT_SIZE == 20
\* sqrt(3) in thousandths
SQRT_OF_THREE == 1732

DRAW_MESSAGE == "!!! Game ended in draw !!!"
WinningMessage(name) == "!!! Player " \o name \o " has won !!!"
PlayerName == [p \in 0..1 |-> IF p = 0 THEN "BLACK" ELSE "GRAY"]

(* Bounds of the model.  hexagonHorizontalCount is what the renderer       *)
(* computes from the monitor; MaxClicks bounds the clicks explored after   *)
(* a scripted opening.                                                     *)
hexagonHorizontalCount == 3
MaxClicks == 2

(* Bounds of the renderer's specification: the heights of the monitors,    *)
(* and the cursor positions, every MouseStep pixels down the window and    *)
(* MouseXs pixels aside of the centre line of the hand.                    *)
MonitorHeights == {1080, 1440}
MouseStep == 10
MouseXs == {0, 25, 50}

-----------------------------------------------------------------------------
(* Hex coordinates and adjacency.                                          *)

HexCords(q, r) == <<q, r>>

\* HexCords::operator<
Less(a, b) == a[1] < b[1] \/ (a[1] = b[1] /\ a[2] < b[2])

\* *set.begin(): the least element in HexCords order
Begin(S) == CHOOSE x \in S : \A y \in S : x = y \/ Less(x, y)

Plus(a, b) == <<a[1] + b[1], a[2] + b[2]>>

\* the direction vectors with the last one replaced: not closed under negation
AXIAL_DIRECTION_VECTORS_NotClosed ==
    << <<-1, 1>>, <<1, -1>>, <<1, 0>>, <<-1, 0>>, <<0, -1>>, <<1, 1>> >>

AXIAL_DIRECTION_VECTORS ==
    << <<-1, 1>>, <<1, -1>>, <<1, 0>>, <<-1, 0>>, <<0, -1>>, <<0, 1>> >>

NoCords == HexCords(INT_MAX, INT_MAX)

\* C++ integer division (truncation toward zero)
CDiv(a, b) == IF a >= 0 THEN a \div b ELSE -((-a) \div b)

\* a null shared_ptr<BaseBugTile>; a non-null one is the sequence
\* <<tile, tile under it, tile under that, ...>> (bugTileUnderBeetle chain)
nullptr == <<>>

TileData(type, playerId) == [type |-> type, playerId |-> playerId]

GetNeighborsOfTile(map, tile) ==
    {Plus(tile, AXIAL_DIRECTION_VECTORS[i]) : i \in 1..SIZE_OF_AXIAL_VECTORS}

\* GetEmptyNeighborsOfTile counting the neighbours outside the map as empty
GetEmptyNeighborsOfTile_NoKeyTest(map, tile) ==
    {x \in GetNeighborsOfTile(map, tile) : x \notin DOMAIN map \/ map[x] = nullptr}

GetEmptyNeighborsOfTile(map, tile) ==
    {x \in GetNeighborsOfTile(map, tile) : x \in DOMAIN map /\ map[x] = nullptr}

GetOccupiedNeighborsOfTile(map, tile) ==
    {x \in GetNeighborsOfTile(map, tile) : x \in DOMAIN map /\ map[x] # nullptr}

GetPlayerID(ptr) == Head(ptr).playerId
GetBugType(ptr) == Head(ptr).type
GetTileUnderBeetle(ptr) == Tail(ptr)

-----------------------------------------------------------------------------
(* Bug tiles: placement and movement rules.                                *)

SpacesSurrondedByTheirColor(map, possibleGeneralMoves, IDOfPlayer) ==
    {move \in possibleGeneralMoves :
        \E neighbor \in GetOccupiedNeighborsOfTile(map, move) :
            GetPlayerID(map[neighbor]) = IDOfPlayer}

\* Place applying no own-colour rule at all
Place_AnyFrontier(map, possibleGeneralMoves, IDOfPlayer, isZeroTurn) ==
    possibleGeneralMoves

\* Place applying the own-colour rule on turn 0 as well
Place_OwnColourOnly(map, possibleGeneralMoves, IDOfPlayer, isZeroTurn) ==
    SpacesSurrondedByTheirColor(map, possibleGeneralMoves, IDOfPlayer)

Place(map, possibleGeneralMoves, IDOfPlayer, isZeroTurn) ==
    IF isZeroTurn
    THEN possibleGeneralMoves
    ELSE SpacesSurrondedByTheirColor(map, possibleGeneralMoves, IDOfPlayer)

\* The loop erases through `iter` without reassigning it whenever an empty
\* neighbour is not in possibleMoves; the next loop test then uses an
\* invalidated iterator.
RemoveUsesErasedIterator(map, possibleMoves, tile) ==
    \E n \in GetEmptyNeighborsOfTile(map, tile) : n \notin possibleMoves

\* RemovePossibleMovesAroundTile erasing nothing
RemovePossibleMovesAroundTile_RemovesNone(map, possibleMoves, tile) ==
    possibleMoves

RemovePossibleMovesAroundTile(map, possibleMoves, tile) ==
    possibleMoves \
        {n \in GetEmptyNeighborsOfTile(map, tile) :
            n \in possibleMoves
            /\ Cardinality(GetOccupiedNeighborsOfTile(map, n)) <= 1}

IsMapClear(map) == \A c \in DOMAIN map : map[c] = nullptr

RECURSIVE FloodFill(_, _)
\* the while loop of CheckIntegrityOfHiveWithoutOneTile, on the scratch map
FloodFill(map, queeToProcess) ==
    IF queeToProcess = {}
    THEN map
    ELSE LET someElement == Begin(queeToProcess)
             cleared == [map EXCEPT ![someElement] = nullptr]
             neighbors == GetOccupiedNeighborsOfTile(cleared, someElement)
         IN  FloodFill(cleared, (queeToProcess \ {someElement}) \cup neighbors)

\* the oracle letting a tile without occupied neighbours go
CheckIntegrityOfHiveWithoutOneTile_IsolatedFree(map, cordsOfRemovedHex) ==
    IF cordsOfRemovedHex \in DOMAIN map
    THEN LET removed == [map EXCEPT ![cordsOfRemovedHex] = nullptr]
             neighbors == GetOccupiedNeighborsOfTile(removed, cordsOfRemovedHex)
             queeToProcess == IF neighbors # {} THEN {Begin(neighbors)} ELSE {}
             filled == FloodFill(removed, queeToProcess)
         IN  [result |-> IsMapClear(filled) \/ neighbors = {},
              scratch |-> filled]
    ELSE [result |-> FALSE, scratch |-> map]

\* The map parameter is passed by value: `scratch` is the callee's copy
\* after the fill, `result` the returned bool.
CheckIntegrityOfHiveWithoutOneTile(map, cordsOfRemovedHex) ==
    IF cordsOfRemovedHex \in DOMAIN map
    THEN LET removed == [map EXCEPT ![cordsOfRemovedHex] = nullptr]
             neighbors == GetOccupiedNeighborsOfTile(removed, cordsOfRemovedHex)
             queeToProcess == IF neighbors # {} THEN {Begin(neighbors)} ELSE {}
             filled == FloodFill(removed, queeToProcess)
         IN  [result |-> IsMapClear(filled), scratch |-> filled]
    ELSE [result |-> FALSE, scratch |-> map]

IsSpaceSurrounded(map, cordsOfHex) ==
    Cardinality(GetOccupiedNeighborsOfTile(map, cordsOfHex)) > 4

FreedomToMove(map, cordsOfRemovedHex) == ~IsSpaceSurrounded(map, cordsOfRemovedHex)

\* QueenBee::Move starting from all neighbours of the origin instead of
\* the empty ones in the border
QueenBeeMove_AllNeighbours(map, possibleGeneralMoves, originalCords) ==
    IF ~CheckIntegrityOfHiveWithoutOneTile(map, originalCords).result
       \/ ~FreedomToMove(map, originalCords)
    THEN {}
    ELSE RemovePossibleMovesAroundTile(
             map, GetNeighborsOfTile(map, originalCords), originalCords)

\* QueenBee::Move without the FreedomToMove test
QueenBeeMove_NoFreedom(map, possibleGeneralMoves, originalCords) ==
    IF ~CheckIntegrityOfHiveWithoutOneTile(map, originalCords).result
    THEN {}
    ELSE LET result == {item \in GetEmptyNeighborsOfTile(map, originalCords) :
                            item \in possibleGeneralMoves}
         IN  RemovePossibleMovesAroundTile(map, result, originalCords)

QueenBeeMove(map, possibleGeneralMoves, originalCords) ==
    IF ~CheckIntegrityOfHiveWithoutOneTile(map, originalCords).result
       \/ ~FreedomToMove(map, originalCords)
    THEN {}
    ELSE LET result == {item \in GetEmptyNeighborsOfTile(map, originalCords) :
                            item \in possibleGeneralMoves}
         IN  RemovePossibleMovesAroundTile(map, result, originalCords)

QueenBeeMoveUB(map, possibleGeneralMoves, originalCords) ==
    /\ CheckIntegrityOfHiveWithoutOneTile(map, originalCords).result
    /\ FreedomToMove(map, originalCords)
    /\ RemoveUsesErasedIterator(map, possibleGeneralMoves, originalCords)

\* Sequence of the elements of S in HexCords order (std::set iteration)
RECURSIVE InOrder(_)
InOrder(S) == IF S = {} THEN <<>>
              ELSE <<Begin(S)>> \o InOrder(S \ {Begin(S)})

RECURSIVE SpiderLoop_NoVisited(_, _, _, _, _)
\* the while loop of FindPositionThreeSpacesFromOrigin without its visited
\* set
SpiderLoop_NoVisited(map, possibleGeneralMoves, queue, visited, result) ==
    IF queue = <<>>
    THEN result
    ELSE LET itemToProcess == Head(queue)
             fresh == {n \in GetEmptyNeighborsOfTile(map, itemToProcess[1]) :
                          n \in possibleGeneralMoves}
             freshSeq == InOrder(fresh)
         IN  IF itemToProcess[2] = 2
             THEN SpiderLoop_NoVisited(map, possibleGeneralMoves, Tail(queue),
                                       visited, result \cup fresh)
             ELSE SpiderLoop_NoVisited(map, possibleGeneralMoves,
                             Tail(queue) \o
                               [i \in 1..Len(freshSeq) |->
                                   <<freshSeq[i], itemToProcess[2] + 1>>],
                             visited, result)

RECURSIVE SpiderLoop(_, _, _, _, _)
\* the while loop of FindPositionThreeSpacesFromOrigin; queue holds
\* <<cords, steps>> pairs
SpiderLoop(map, possibleGeneralMoves, queue, visited, result) ==
    IF queue = <<>>
    THEN result
    ELSE LET itemToProcess == Head(queue)
             visited1 == visited \cup {itemToProcess[1]}
             fresh == {n \in GetEmptyNeighborsOfTile(map, itemToProcess[1]) :
                          n \notin visited1 /\ n \in possibleGeneralMoves}
             freshSeq == InOrder(fresh)
         IN  IF itemToProcess[2] = 2
             THEN SpiderLoop(map, possibleGeneralMoves, Tail(queue),
                             visited1 \cup fresh, result \cup fresh)
             ELSE SpiderLoop(map, possibleGeneralMoves,
                             Tail(queue) \o
                               [i \in 1..Len(freshSeq) |->
                                   <<freshSeq[i], itemToProcess[2] + 1>>],
                             visited1 \cup fresh, result)

\* the search starting with the origin already counted as one step
FindPositionThreeSpacesFromOrigin_FromOne(map, possibleGeneralMoves, originalCords) ==
    SpiderLoop(map, possibleGeneralMoves, << <<originalCords, 1>> >>, {}, {})

FindPositionThreeSpacesFromOrigin(map, possibleGeneralMoves, originalCords) ==
    SpiderLoop(map, possibleGeneralMoves, << <<originalCords, 0>> >>, {}, {})

SpiderMove(map, possibleGeneralMoves, originalCords) ==
    IF ~CheckIntegrityOfHiveWithoutOneTile(map, originalCords).result
       \/ ~FreedomToMove(map, originalCords)
    THEN {}
    ELSE FindPositionThreeSpacesFromOrigin(map, possibleGeneralMoves, originalCords)

\* Beetle::Move never calling RemovePossibleMovesAroundTile
BeetleMove_NoRemoval(ptr, map, possibleGeneralMoves, originalCords) ==
    IF GetTileUnderBeetle(ptr) = nullptr
       /\ ~CheckIntegrityOfHiveWithoutOneTile(map, originalCords).result
    THEN {}
    ELSE GetNeighborsOfTile(map, originalCords)

\* bugTileUnderBeetle is the rest of the chain below the Beetle
BeetleMove(ptr, map, possibleGeneralMoves, originalCords) ==
    IF GetTileUnderBeetle(ptr) = nullptr
       /\ ~CheckIntegrityOfHiveWithoutOneTile(map, originalCords).result
    THEN {}
    ELSE LET neighbors == GetNeighborsOfTile(map, originalCords)
         IN  IF GetTileUnderBeetle(ptr) = nullptr
             THEN RemovePossibleMovesAroundTile(map, neighbors, originalCords)
             ELSE neighbors

RECURSIVE Jump(_, _, _)
\* the inner while loop of GrassHopper::Move
Jump(map, tempPosition, vector) ==
    IF tempPosition \in DOMAIN map /\ map[tempPosition] # nullptr
    THEN Jump(map, Plus(tempPosition, vector), vector)
    ELSE tempPosition

\* GrassHopper::Move inserting the position without looking at `moved`
GrassHopperMove_AllDirections(map, possibleGeneralMoves, originalCords) ==
    IF ~CheckIntegrityOfHiveWithoutOneTile(map, originalCords).result
    THEN {}
    ELSE {Jump(map, Plus(originalCords, AXIAL_DIRECTION_VECTORS[i]),
               AXIAL_DIRECTION_VECTORS[i]) : i \in 1..SIZE_OF_AXIAL_VECTORS}

GrassHopperMove(map, possibleGeneralMoves, originalCords) ==
    IF ~CheckIntegrityOfHiveWithoutOneTile(map, originalCords).result
    THEN {}
    ELSE {Jump(map, Plus(originalCords, AXIAL_DIRECTION_VECTORS[i]),
               AXIAL_DIRECTION_VECTORS[i]) :
            i \in {j \in 1..SIZE_OF_AXIAL_VECTORS :
                     LET first == Plus(originalCords, AXIAL_DIRECTION_VECTORS[j])
                     IN  first \in DOMAIN map /\ map[first] # nullptr}}

\* SoldierAnt::Move keeping the surrounded cells
SoldierAntMove_KeepsSurrounded(map, possibleGeneralMoves, originalCords) ==
    IF ~CheckIntegrityOfHiveWithoutOneTile(map, originalCords).result
       \/ ~FreedomToMove(map, originalCords)
    THEN {}
    ELSE possibleGeneralMoves

SoldierAntMove(map, possibleGeneralMoves, originalCords) ==
    IF ~CheckIntegrityOfHiveWithoutOneTile(map, originalCords).result
       \/ ~FreedomToMove(map, originalCords)
    THEN {}
    ELSE {hex \in possibleGeneralMoves : ~IsSpaceSurrounded(map, hex)}

\* virtual dispatch of BaseBugTile::Move on the dynamic type of the tile
Move(ptr, map, possibleGeneralMoves, originalCords) ==
    CASE GetBugType(ptr) = "QUEEN_BEE" ->
            QueenBeeMove(map, possibleGeneralMoves, originalCords)
      [] GetBugType(ptr) = "SPIDER" ->
            SpiderMove(map, possibleGeneralMoves, originalCords)
      [] GetBugType(ptr) = "BEETLE" ->
            BeetleMove(ptr, map, possibleGeneralMoves, originalCords)
      [] GetBugType(ptr) = "GRASS_HOPPER" ->
            GrassHopperMove(map, possibleGeneralMoves, originalCords)
      [] GetBugType(ptr) = "SOLDIER_ANT" ->
            SoldierAntMove(map, possibleGeneralMoves, originalCords)

-----------------------------------------------------------------------------
(* Player.                                                                 *)

\* Player::avaiblePlayerpieces as constructed
avaiblePlayerpieces ==
    [i \in 0..(DIFFERENT_PIECES_COUNT - 1) |->
        CASE i = 0 -> [first |-> "QUEEN_BEE", second |-> 1]
          [] i = 1 -> [first |-> "SPIDER", second |-> 2]
          [] i = 2 -> [first |-> "BEETLE", second |-> 2]
          [] i = 3 -> [first |-> "GRASS_HOPPER", second |-> 3]
          [] i = 4 -> [first |-> "SOLDIER_ANT", second |-> 3]]

ModifieAvaiblePiecesCount(player, index, amount) ==
    [player EXCEPT ![index].second = @ + amount]

HasPlacedQueen(player) == player[0].second = 0

\* Player::bugTileData[index]
GetTileDataAtIndex(playerId, index) ==
    TileData(avaiblePlayerpieces[index].first, playerId)

-----------------------------------------------------------------------------
(* GameEngine.  The engine's fields are gathered in a record s so that     *)
(* every method is an operator from state to state.                        *)

GenerateBaseMap ==
    [c \in {HexCords(i, j - (i \div 2)) :
                i \in 0..(hexagonHorizontalCount - 1),
                j \in 0..(HEXAGON_VERTICAL_COUNT - 1)} |-> nullptr]

\* the coordinate the constructor puts into borderOfHive
CenterOfBoard ==
    HexCords(CDiv(hexagonHorizontalCount, 2),
             CDiv(HEXAGON_VERTICAL_COUNT - CDiv(hexagonHorizontalCount, 2), 2))

GameEngine ==
    [gameMap |-> GenerateBaseMap,
     borderOfHive |-> {CenterOfBoard},
     possibleMovesOfSelectedTile |-> {},
     isPlayerTileSelected |-> FALSE,
     indexOfPlayerTileSelected |-> 0,
     pointerToSelectedTile |-> nullptr,
     originalCordsOfSelectedTile |-> NoCords,
     turn |-> 0,
     idOfPlayerOnTurn |-> 0,
     players |-> [p \in 0..1 |-> avaiblePlayerpieces],
     gameInterupted |-> FALSE,
     messageToDisplay |-> "",
     erasedIteratorUsed |-> FALSE]

InvalidateSelectedTileVariables(s) ==
    [s EXCEPT !.isPlayerTileSelected = FALSE,
              !.indexOfPlayerTileSelected = -1,
              !.pointerToSelectedTile = nullptr,
              !.originalCordsOfSelectedTile = NoCords]

HasSomeBugHexNeighbor(map, hexcords) ==
    Cardinality(GetOccupiedNeighborsOfTile(map, hexcords)) > 0

\* EraseUnnecessarydHexesFromBorder erasing nothing
EraseUnnecessarydHexesFromBorder_KeepAll(map, border, originalPositionOfModifiedTile) ==
    border

EraseUnnecessarydHexesFromBorder(map, border, originalPositionOfModifiedTile) ==
    border \ {candidate \in GetEmptyNeighborsOfTile(map, originalPositionOfModifiedTile) :
                 ~HasSomeBugHexNeighbor(map, candidate)}

\* ModifyBorderOfHive(present) leaving the occupied cell in the border
ModifyBorderOfHive_KeepsPresent(map, border, presentCordsOfModifiedTile) ==
    border \cup GetEmptyNeighborsOfTile(map, presentCordsOfModifiedTile)

\* ModifyBorderOfHive(present)
ModifyBorderOfHive(map, border, presentCordsOfModifiedTile) ==
    (border \ {presentCordsOfModifiedTile})
        \cup GetEmptyNeighborsOfTile(map, presentCordsOfModifiedTile)

\* ModifyBorderOfHive(present, original) not looking whether the origin
\* was vacated
ModifyBorderOfHiveMoved_AlwaysVacated(map, border, presentCordsOfModifiedTile, originalPositionOfModifiedTile) ==
    EraseUnnecessarydHexesFromBorder(
        map,
        ModifyBorderOfHive(map, border, presentCordsOfModifiedTile)
            \cup {originalPositionOfModifiedTile},
        originalPositionOfModifiedTile)

\* ModifyBorderOfHive(present, original)
ModifyBorderOfHiveMoved(map, border, presentCordsOfModifiedTile, originalPositionOfModifiedTile) ==
    LET border1 == ModifyBorderOfHive(map, border, presentCordsOfModifiedTile)
    IN  IF originalPositionOfModifiedTile \in DOMAIN map
           /\ map[originalPositionOfModifiedTile] = nullptr
        THEN EraseUnnecessarydHexesFromBorder(
                 map, border1 \cup {originalPositionOfModifiedTile},
                 originalPositionOfModifiedTile)
        ELSE border1

CheckIfPlayerWon(s, IDOfPlayer) ==
    \E c \in DOMAIN s.gameMap :
        /\ s.gameMap[c] # nullptr
        /\ GetBugType(s.gameMap[c]) = "QUEEN_BEE"
        /\ GetPlayerID(s.gameMap[c]) = (IDOfPlayer + 1) % 2
        /\ Cardinality(GetOccupiedNeighborsOfTile(s.gameMap, c)) = 6

CheckGameStatus(s) ==
    LET playerTwoWon == HasPlacedQueen(s.players[0]) /\ CheckIfPlayerWon(s, 1)
        playerOneWon == HasPlacedQueen(s.players[1]) /\ CheckIfPlayerWon(s, 0)
    IN  IF playerOneWon /\ playerTwoWon THEN "DRAW"
        ELSE IF playerOneWon THEN "FIRST_PLAYER_WON"
        ELSE IF playerTwoWon THEN "SECOND_PLAYER_WON"
        ELSE "NORMAL"

\* ChangeTurn advancing the turn counter after either player's action
ChangeTurn_EveryAction(s) ==
    LET status == CheckGameStatus(s)
    IN  IF status = "NORMAL"
        THEN [s EXCEPT !.turn = @ + 1,
                       !.idOfPlayerOnTurn = (@ + 1) % 2]
        ELSE [s EXCEPT !.messageToDisplay =
                          CASE status = "DRAW" -> DRAW_MESSAGE
                            [] status = "FIRST_PLAYER_WON" ->
                                  WinningMessage(PlayerName[0])
                            [] status = "SECOND_PLAYER_WON" ->
                                  WinningMessage(PlayerName[1]),
                       !.gameInterupted = TRUE]

ChangeTurn(s) ==
    LET status == CheckGameStatus(s)
    IN  IF status = "NORMAL"
        THEN [s EXCEPT !.turn = IF startingPlayer # s.idOfPlayerOnTurn
                                THEN @ + 1 ELSE @,
                       !.idOfPlayerOnTurn = (@ + 1) % 2]
        ELSE [s EXCEPT !.messageToDisplay =
                          CASE status = "DRAW" -> DRAW_MESSAGE
                            [] status = "FIRST_PLAYER_WON" ->
                                  WinningMessage(PlayerName[0])
                            [] status = "SECOND_PLAYER_WON" ->
                                  WinningMessage(PlayerName[1]),
                       !.gameInterupted = TRUE]

\* the map and border after the placement branch of MoveHex
MoveHexPlaced(s, cords) ==
    LET map1 == [s.gameMap EXCEPT ![cords] = s.pointerToSelectedTile]
    IN  [s EXCEPT !.gameMap = map1,
                  !.players[s.idOfPlayerOnTurn] =
                      ModifieAvaiblePiecesCount(@, s.indexOfPlayerTileSelected, -1),
                  !.borderOfHive = ModifyBorderOfHive(map1, s.borderOfHive, cords)]

\* the move branch of MoveHex forgetting to clear the vacated cell
MoveHexMoved_KeepsOriginal(s, cords) ==
    LET original == s.originalCordsOfSelectedTile
        isBeetle == GetBugType(s.pointerToSelectedTile) = "BEETLE"
        map1 == IF original \in DOMAIN s.gameMap /\ isBeetle
                THEN [s.gameMap EXCEPT ![original] =
                         GetTileUnderBeetle(s.pointerToSelectedTile)]
                ELSE s.gameMap
        tile == IF original \in DOMAIN s.gameMap /\ isBeetle
                THEN <<Head(s.pointerToSelectedTile)>> \o map1[cords]
                ELSE s.pointerToSelectedTile
        map2 == [map1 EXCEPT ![cords] = tile]
    IN  [s EXCEPT !.gameMap = map2,
                  !.borderOfHive =
                      ModifyBorderOfHiveMoved(map2, s.borderOfHive, cords, original)]

\* the move branch of MoveHex emptying the vacated cell under a Beetle too
MoveHexMoved_DropsCovered(s, cords) ==
    LET original == s.originalCordsOfSelectedTile
        isBeetle == GetBugType(s.pointerToSelectedTile) = "BEETLE"
        map1 == IF original \in DOMAIN s.gameMap
                THEN [s.gameMap EXCEPT ![original] = nullptr]
                ELSE s.gameMap
        tile == IF original \in DOMAIN s.gameMap /\ isBeetle
                THEN <<Head(s.pointerToSelectedTile)>> \o map1[cords]
                ELSE s.pointerToSelectedTile
        map2 == [map1 EXCEPT ![cords] = tile]
    IN  [s EXCEPT !.gameMap = map2,
                  !.borderOfHive =
                      ModifyBorderOfHiveMoved(map2, s.borderOfHive, cords, original)]

\* the move branch of MoveHex adding the destination's tile under what the
\* Beetle already carries instead of replacing it
MoveHexMoved_KeepsCarried(s, cords) ==
    LET original == s.originalCordsOfSelectedTile
        isBeetle == GetBugType(s.pointerToSelectedTile) = "BEETLE"
        map1 == IF original \in DOMAIN s.gameMap
                THEN [s.gameMap EXCEPT ![original] =
                         IF isBeetle
                         THEN GetTileUnderBeetle(s.pointerToSelectedTile)
                         ELSE nullptr]
                ELSE s.gameMap
        tile == IF original \in DOMAIN s.gameMap /\ isBeetle
                THEN s.pointerToSelectedTile \o map1[cords]
                ELSE s.pointerToSelectedTile
        map2 == [map1 EXCEPT ![cords] = tile]
    IN  [s EXCEPT !.gameMap = map2,
                  !.borderOfHive =
                      ModifyBorderOfHiveMoved(map2, s.borderOfHive, cords, original)]

\* the move branch of MoveHex without SetTileUnderBeetle: the Beetle keeps
\* what it carried and the destination's tile is overwritten
MoveHexMoved_NoSetTileUnder(s, cords) ==
    LET original == s.originalCordsOfSelectedTile
        isBeetle == GetBugType(s.pointerToSelectedTile) = "BEETLE"
        map1 == IF original \in DOMAIN s.gameMap
                THEN [s.gameMap EXCEPT ![original] =
                         IF isBeetle
                         THEN GetTileUnderBeetle(s.pointerToSelectedTile)
                         ELSE nullptr]
                ELSE s.gameMap
        map2 == [map1 EXCEPT ![cords] = s.pointerToSelectedTile]
    IN  [s EXCEPT !.gameMap = map2,
                  !.borderOfHive =
                      ModifyBorderOfHiveMoved(map2, s.borderOfHive, cords, original)]

\* the map and border after the move branch of MoveHex
MoveHexMoved(s, cords) ==
    LET original == s.originalCordsOfSelectedTile
        isBeetle == GetBugType(s.pointerToSelectedTile) = "BEETLE"
        map1 == IF original \in DOMAIN s.gameMap
                THEN [s.gameMap EXCEPT ![original] =
                         IF isBeetle
                         THEN GetTileUnderBeetle(s.pointerToSelectedTile)
                         ELSE nullptr]
                ELSE s.gameMap
        \* SetTileUnderBeetle(mapIterator->second)
        tile == IF original \in DOMAIN s.gameMap /\ isBeetle
                THEN <<Head(s.pointerToSelectedTile)>> \o map1[cords]
                ELSE s.pointerToSelectedTile
        map2 == [map1 EXCEPT ![cords] = tile]
    IN  [s EXCEPT !.gameMap = map2,
                  !.borderOfHive =
                      ModifyBorderOfHiveMoved(map2, s.borderOfHive, cords, original)]

MoveHex(s, cords) ==
    ChangeTurn(InvalidateSelectedTileVariables(
        IF s.isPlayerTileSelected
        THEN MoveHexPlaced(s, cords)
        ELSE MoveHexMoved(s, cords)))

\* CheckInputInPlayerField not looking at the count left in the slot
CheckInputInPlayerField_NoCount(s, index) ==
    LET s1 == [s EXCEPT !.indexOfPlayerTileSelected = index,
                        !.isPlayerTileSelected = (index # -1)]
    IN  IF s1.isPlayerTileSelected
        THEN IF s1.turn # 4 \/ index = 0
                \/ HasPlacedQueen(s1.players[s1.idOfPlayerOnTurn])
             THEN [s1 EXCEPT !.pointerToSelectedTile =
                      <<GetTileDataAtIndex(s1.idOfPlayerOnTurn, index)>>]
             ELSE InvalidateSelectedTileVariables(s1)
        ELSE InvalidateSelectedTileVariables(s1)

\* CheckInputInPlayerField with the queen demanded one turn later
CheckInputInPlayerField_LateDeadline(s, index) ==
    LET s1 == [s EXCEPT !.indexOfPlayerTileSelected = index,
                        !.isPlayerTileSelected = (index # -1)]
    IN  IF s1.isPlayerTileSelected
        THEN LET selectedPiece == s1.players[s1.idOfPlayerOnTurn][index]
             IN  IF selectedPiece.second > 0
                    /\ (s1.turn # 5 \/ index = 0
                        \/ HasPlacedQueen(s1.players[s1.idOfPlayerOnTurn]))
                 THEN [s1 EXCEPT !.pointerToSelectedTile =
                          <<GetTileDataAtIndex(s1.idOfPlayerOnTurn, index)>>]
                 ELSE InvalidateSelectedTileVariables(s1)
        ELSE InvalidateSelectedTileVariables(s1)

\* CheckInputInPlayerField without the turn-4 condition
CheckInputInPlayerField_NoDeadline(s, index) ==
    LET s1 == [s EXCEPT !.indexOfPlayerTileSelected = index,
                        !.isPlayerTileSelected = (index # -1)]
    IN  IF s1.isPlayerTileSelected
        THEN LET selectedPiece == s1.players[s1.idOfPlayerOnTurn][index]
             IN  IF selectedPiece.second > 0
                 THEN [s1 EXCEPT !.pointerToSelectedTile =
                          <<GetTileDataAtIndex(s1.idOfPlayerOnTurn, index)>>]
                 ELSE InvalidateSelectedTileVariables(s1)
        ELSE InvalidateSelectedTileVariables(s1)

CheckInputInPlayerField(s, index) ==
    LET s1 == [s EXCEPT !.indexOfPlayerTileSelected = index,
                        !.isPlayerTileSelected = (index # -1)]
    IN  IF s1.isPlayerTileSelected
        THEN LET selectedPiece == s1.players[s1.idOfPlayerOnTurn][index]
             IN  IF selectedPiece.second > 0
                    /\ (s1.turn # 4 \/ index = 0
                        \/ HasPlacedQueen(s1.players[s1.idOfPlayerOnTurn]))
                 THEN [s1 EXCEPT !.pointerToSelectedTile =
                          <<GetTileDataAtIndex(s1.idOfPlayerOnTurn, index)>>]
                 ELSE InvalidateSelectedTileVariables(s1)
        ELSE InvalidateSelectedTileVariables(s1)

\* the MoveHex branch taken without looking at the legal destinations
ClickAppliesMoveHex_AnyCell(s, cords) ==
    /\ cords \in DOMAIN s.gameMap
    /\ s.pointerToSelectedTile # nullptr

\* the branch of CheckInputInHexMap that hands the click to MoveHex
ClickAppliesMoveHex(s, cords) ==
    /\ cords \in DOMAIN s.gameMap
    /\ cords \in s.possibleMovesOfSelectedTile
    /\ s.pointerToSelectedTile # nullptr

\* CheckInputInHexMap selecting the clicked tile whoever owns it
CheckInputInHexMap_AnyOwner(s, cords) ==
    IF cords \in DOMAIN s.gameMap
    THEN IF ClickAppliesMoveHex(s, cords)
         THEN MoveHex(s, cords)
         ELSE IF s.gameMap[cords] # nullptr
              THEN LET s1 == InvalidateSelectedTileVariables(s)
                   IN  IF s1.turn # 4
                          \/ HasPlacedQueen(s1.players[s1.idOfPlayerOnTurn])
                       THEN [s1 EXCEPT !.pointerToSelectedTile = s1.gameMap[cords],
                                       !.originalCordsOfSelectedTile = cords]
                       ELSE s1
              ELSE s
    ELSE InvalidateSelectedTileVariables(s)

CheckInputInHexMap(s, cords) ==
    IF cords \in DOMAIN s.gameMap
    THEN IF ClickAppliesMoveHex(s, cords)
         THEN MoveHex(s, cords)
         ELSE IF s.gameMap[cords] # nullptr
                 /\ GetPlayerID(s.gameMap[cords]) = s.idOfPlayerOnTurn
              THEN LET s1 == InvalidateSelectedTileVariables(s)
                   IN  IF s1.turn # 4
                          \/ HasPlacedQueen(s1.players[s1.idOfPlayerOnTurn])
                       THEN [s1 EXCEPT !.pointerToSelectedTile = s1.gameMap[cords],
                                       !.originalCordsOfSelectedTile = cords]
                       ELSE s1
              ELSE s
    ELSE InvalidateSelectedTileVariables(s)

\* UpdatePossibleMovesOnSelectedTile asking Move whether or not the queen
\* of the player on turn is placed
UpdatePossibleMovesOnSelectedTile_NoQueenCheck(s) ==
    IF s.pointerToSelectedTile # nullptr
    THEN IF s.isPlayerTileSelected
         THEN [s EXCEPT !.possibleMovesOfSelectedTile =
                  Place(s.gameMap, s.borderOfHive, s.idOfPlayerOnTurn, s.turn = 0)]
         ELSE [s EXCEPT !.possibleMovesOfSelectedTile =
                  Move(s.pointerToSelectedTile, s.gameMap, s.borderOfHive,
                       s.originalCordsOfSelectedTile)]
    ELSE s

\* the oracle working on the engine's map instead of on its copy
UpdatePossibleMovesOnSelectedTile_OnSharedMap(s) ==
    IF s.pointerToSelectedTile # nullptr
    THEN IF s.isPlayerTileSelected
         THEN [s EXCEPT !.possibleMovesOfSelectedTile =
                  Place(s.gameMap, s.borderOfHive, s.idOfPlayerOnTurn, s.turn = 0)]
         ELSE IF HasPlacedQueen(s.players[s.idOfPlayerOnTurn])
         THEN [s EXCEPT !.possibleMovesOfSelectedTile =
                  Move(s.pointerToSelectedTile, s.gameMap, s.borderOfHive,
                       s.originalCordsOfSelectedTile),
                        !.gameMap =
                  IF GetTileUnderBeetle(s.pointerToSelectedTile) = nullptr
                  THEN CheckIntegrityOfHiveWithoutOneTile(
                           s.gameMap, s.originalCordsOfSelectedTile).scratch
                  ELSE @]
         ELSE [s EXCEPT !.possibleMovesOfSelectedTile = {}]
    ELSE s

UpdatePossibleMovesOnSelectedTile(s) ==
    IF s.pointerToSelectedTile # nullptr
    THEN IF s.isPlayerTileSelected
         THEN [s EXCEPT !.possibleMovesOfSelectedTile =
                  Place(s.gameMap, s.borderOfHive, s.idOfPlayerOnTurn, s.turn = 0)]
         ELSE IF HasPlacedQueen(s.players[s.idOfPlayerOnTurn])
         THEN [s EXCEPT !.possibleMovesOfSelectedTile =
                  Move(s.pointerToSelectedTile, s.gameMap, s.borderOfHive,
                       s.originalCordsOfSelectedTile),
                        !.erasedIteratorUsed =
                  @ \/ (GetBugType(s.pointerToSelectedTile) = "QUEEN_BEE"
                        /\ QueenBeeMoveUB(s.gameMap, s.borderOfHive,
                                          s.originalCordsOfSelectedTile))]
         ELSE [s EXCEPT !.possibleMovesOfSelectedTile = {}]
    ELSE s

\* CheckInputs without the call of UpdatePossibleMovesOnSelectedTile
CheckInputs_NoUpdate(s, inField, index, cords) ==
    IF ~s.gameInterupted
    THEN IF inField
         THEN CheckInputInPlayerField(s, index)
         ELSE CheckInputInHexMap(s, cords)
    ELSE s

\* CheckInputs not looking at gameInterupted
CheckInputs_NoFreeze(s, inField, index, cords) ==
    UpdatePossibleMovesOnSelectedTile(
        IF inField
        THEN CheckInputInPlayerField(s, index)
        ELSE CheckInputInHexMap(s, cords))

\* CheckInputs with the mouse in a player's field (inField) or over the map
CheckInputs(s, inField, index, cords) ==
    IF ~s.gameInterupted
    THEN UpdatePossibleMovesOnSelectedTile(
             IF inField
             THEN CheckInputInPlayerField(s, index)
             ELSE CheckInputInHexMap(s, cords))
    ELSE s

-----------------------------------------------------------------------------
(* Renderer: the hand slot under the cursor.  Lengths are in hundredths of *)
(* a pixel; mousePosition.x is measured from the centre line of the hand   *)
(* of the player on turn, mousePosition.y from the top of the window.      *)

\* windowSize.y = GetMonitorHeight * WINDOW_SCALING (2 / 3.0)
WindowHeight(monitorHeight) == (monitorHeight * 2) \div 3

hexSize(windowSizeY) ==
    ((windowSizeY - TOLERANCE) * 100 * 1000)
        \div (HEXAGON_VERTICAL_COUNT * SQRT_OF_THREE + 1000)

offsetOfHexInPlayerField(windowSizeY) ==
    (FONT_SIZE * 3 + 45) * 100 + (SQRT_OF_THREE * hexSize(windowSizeY)) \div 2000

spacingOfHexInPlayerField(windowSizeY) ==
    (FONT_SIZE * 2 + 30) * 100 + (SQRT_OF_THREE * hexSize(windowSizeY)) \div 1000

\* round(n / d) for d > 0: to the nearest integer, halves away from zero
Round(n, d) ==
    IF n >= 0 THEN (2 * n + d) \div (2 * d) ELSE -((2 * (-n) + d) \div (2 * d))

CheckCollisionPointCircle(dx, dy, radius) == dx * dx + dy * dy <= radius * radius

GetIndexOfHexInPlayerField(windowSizeY, mouse) ==
    LET tempIndexOfHex ==
            Round(mouse.y * 100 - offsetOfHexInPlayerField(windowSizeY),
                  spacingOfHexInPlayerField(windowSizeY))
        y == offsetOfHexInPlayerField(windowSizeY)
                + spacingOfHexInPlayerField(windowSizeY) * tempIndexOfHex
    IN  IF tempIndexOfHex > 5
        THEN -1
        ELSE IF CheckCollisionPointCircle(
                    mouse.x * 100, mouse.y * 100 - y,
                    (hexSize(windowSizeY) * SQRT_OF_THREE) \div 2000)
             THEN tempIndexOfHex
             ELSE -1

\* CheckInputInPlayerField for an index outside the arrays of Player:
\* playerAvaiblePieces[index] and bugTileData[index] are read beyond their
\* DIFFERENT_PIECES_COUNT elements.  Whatever is read, the handler drops the
\* selection (second <= 0, or the turn-4 rule), leaves the pointer as it was
\* (first is no bugType of the switch) or selects a tile whose data lie
\* beyond bugTileData.
CheckInputInPlayerFieldOutOfBounds(s, index) ==
    LET s1 == [s EXCEPT !.indexOfPlayerTileSelected = index,
                        !.isPlayerTileSelected = (index # -1)]
    IN  {InvalidateSelectedTileVariables(s1), s1}
            \cup {[s1 EXCEPT !.pointerToSelectedTile = <<TileData(type, playerId)>>] :
                     type \in {avaiblePlayerpieces[i].first :
                                  i \in DOMAIN avaiblePlayerpieces},
                     playerId \in 0..1}

-----------------------------------------------------------------------------
(* The clicks.  FindCordsOfHexUnderCursor can yield any coordinate; one    *)
(* coordinate outside the map stands for all of them, which                *)
(* CheckInputInHexMap treats alike.  The hand clicks are -1 (no slot under  *)
(* the cursor) and the five slots 0..4; the guard of                       *)
(* GetIndexOfHexInPlayerField (tempIndexOfHex > 5) also lets 5 through     *)
(* where the window is high enough; that click is played by SpecRenderer,  *)
(* not here.                                                               *)

\* two columns right of the centre: beyond the last column, and a neighbour of
\* the cells Rel(1, -1) and Rel(1, 0) of that column
OffMapCords == Plus(CenterOfBoard, HexCords(2, -1))
MapClickCords == DOMAIN GenerateBaseMap \cup {OffMapCords}
FieldClickIndexes == (-1)..(DIFFERENT_PIECES_COUNT - 1)

FieldClick(index) == [inField |-> TRUE, index |-> index, cords |-> NoCords]
MapClick(cords) == [inField |-> FALSE, index |-> -1, cords |-> cords]

\* coordinates relative to the seed cell
Rel(dq, dr) == Plus(CenterOfBoard, HexCords(dq, dr))

\* select slot `index` of the hand, then click the cell
PlaceClicks(index, dq, dr) == <<FieldClick(index), MapClick(Rel(dq, dr))>>
\* select the tile on a cell, then click the destination
MoveClicks(fq, fr, tq, tr) == <<MapClick(Rel(fq, fr)), MapClick(Rel(tq, tr))>>

\* Scripted openings: click sequences played from the constructed engine
\* before the free clicks.  Slots: 0 queen, 1 spider, 2 beetle,
\* 3 grasshopper, 4 soldier ant.
OpeningNone == <<>>

\* queens in the middle of a column, an ant at each end
OpeningChain ==
    PlaceClicks(0, 0, 0) \o PlaceClicks(0, 0, 1)
    \o PlaceClicks(4, 0, -1) \o PlaceClicks(4, 0, 2)

\* four rounds in which player 0 never places the queen
OpeningNoQueen ==
    PlaceClicks(4, 0, 0) \o PlaceClicks(2, 0, 1)
    \o PlaceClicks(4, 0, -1) \o PlaceClicks(4, 0, 2)
    \o PlaceClicks(4, 0, -2) \o PlaceClicks(4, 0, 3)
    \o PlaceClicks(1, 0, -3) \o PlaceClicks(4, 0, 4)

\* player 1's queen at Rel(0,1) with five neighbours, player 0 on turn
OpeningAlmostWon ==
    PlaceClicks(0, 0, 0) \o PlaceClicks(0, 0, 1)
    \o PlaceClicks(4, -1, 1) \o PlaceClicks(4, 0, 2)
    \o PlaceClicks(4, 1, 0) \o PlaceClicks(4, -1, 2)

\* the same with one more tile of player 0, player 1 on turn
OpeningAlmostWonOther ==
    OpeningAlmostWon \o PlaceClicks(1, 0, -1)

\* player 0's queen at the seed with five neighbours, player 0 on turn
OpeningAlmostLost ==
    PlaceClicks(0, 0, 0) \o PlaceClicks(0, 0, 1)
    \o PlaceClicks(4, 0, -1) \o PlaceClicks(4, -1, 1)
    \o PlaceClicks(4, -1, 0) \o PlaceClicks(4, 1, 0)

\* both queens lack only the shared neighbour Rel(-1,1), player 1 on turn
OpeningAlmostDraw ==
    PlaceClicks(0, 0, 0) \o PlaceClicks(0, 0, 1)
    \o PlaceClicks(4, 0, -1) \o PlaceClicks(4, 0, 2)
    \o PlaceClicks(4, -1, 0) \o PlaceClicks(4, -1, 2)
    \o PlaceClicks(1, 1, -1) \o PlaceClicks(4, 1, 1)
    \o PlaceClicks(1, 1, 0)

\* player 0's beetle climbs onto player 0's queen, which then gets five
\* neighbours; player 1 on turn
OpeningCoveredQueen ==
    PlaceClicks(0, 0, 0) \o PlaceClicks(0, 0, 1)
    \o PlaceClicks(2, 0, -1) \o PlaceClicks(4, 0, 2)
    \o MoveClicks(0, -1, 0, 0) \o PlaceClicks(4, -1, 1)
    \o PlaceClicks(4, 0, -1) \o PlaceClicks(4, 1, 0)
    \o PlaceClicks(4, -1, 0)

\* every bug type of both players on the board, player 0 on turn
OpeningMixed ==
    PlaceClicks(0, 0, 0) \o PlaceClicks(0, 0, 1)
    \o PlaceClicks(3, 0, -1) \o PlaceClicks(2, 0, 2)
    \o PlaceClicks(1, -1, 0) \o PlaceClicks(1, 1, 1)
    \o PlaceClicks(2, 1, -1) \o PlaceClicks(3, -1, 2)

\* the same after player 0's grasshopper has jumped the column, player 1
\* on turn
OpeningMixedOther ==
    OpeningMixed \o MoveClicks(0, -1, 0, 3)

\* each player's beetle has climbed onto that player's queen, player 0 on
\* turn
OpeningStacked ==
    PlaceClicks(0, 0, 0) \o PlaceClicks(0, 0, 1)
    \o PlaceClicks(2, 0, -1) \o PlaceClicks(2, 0, 2)
    \o MoveClicks(0, -1, 0, 0) \o MoveClicks(0, 2, 0, 1)

\* a closed ring of six tiles around the empty cell Rel(0,1), both queens
\* in the ring, player 0 on turn
OpeningRing ==
    PlaceClicks(0, 0, 0) \o PlaceClicks(0, 1, 0)
    \o PlaceClicks(2, -1, 1) \o PlaceClicks(4, 1, 1)
    \o PlaceClicks(4, -1, 2) \o PlaceClicks(4, 0, 2)

\* player 0's grasshopper at the seed with five neighbours, player 0 on
\* turn
OpeningHemmedIn ==
    PlaceClicks(3, 0, 0) \o PlaceClicks(0, 0, 1)
    \o PlaceClicks(0, 0, -1) \o PlaceClicks(4, -1, 1)
    \o PlaceClicks(4, -1, 0) \o PlaceClicks(4, 1, 0)

\* after OpeningChain player 0's ant has left the hive for a cell next to
\* its own origin only, and player 1 has placed a tile; player 0 on turn
OpeningSplit ==
    OpeningChain \o MoveClicks(0, -1, -1, -1) \o PlaceClicks(4, 0, 3)

\* after OpeningAlmostLost player 0 has filled the last cell around its
\* own queen: the game is over
OpeningLost ==
    OpeningAlmostLost \o PlaceClicks(1, 1, -1)

\* after OpeningMixedOther player 1's grasshopper has jumped to
\* Rel(1,0), player 0 on turn
OpeningMixedThird ==
    OpeningMixedOther \o MoveClicks(-1, 2, 1, 0)

\* player 0 has placed an ant and kept the queen, player 1 has placed the
\* queen; player 0 on turn
OpeningQueenInHand ==
    PlaceClicks(4, 0, 0) \o PlaceClicks(0, 0, 1)

\* a straight column of five tiles with player 1's spider at its end
\* Rel(0,2), player 1 on turn
OpeningSpiderChain ==
    PlaceClicks(0, 0, 0) \o PlaceClicks(0, 0, 1)
    \o PlaceClicks(4, 0, -1) \o PlaceClicks(1, 0, 2)
    \o PlaceClicks(4, 0, -2)

\* after OpeningNoQueen player 0 has placed the queen at the deadline;
\* player 1, whose queen is in the hand, is on turn at turn 4
OpeningDeadline ==
    OpeningNoQueen \o PlaceClicks(0, -1, -1)

Openings ==
    {OpeningNone, OpeningChain, OpeningNoQueen, OpeningAlmostWon,
     OpeningAlmostWonOther, OpeningAlmostLost, OpeningAlmostDraw,
     OpeningCoveredQueen, OpeningMixed, OpeningMixedOther,
     OpeningStacked, OpeningRing, OpeningHemmedIn, OpeningSplit,
     OpeningLost, OpeningMixedThird, OpeningQueenInHand,
     OpeningSpiderChain, OpeningDeadline}

-----------------------------------------------------------------------------
(* The state machine.                                                      *)

State ==
    [gameMap |-> gameMap,
     borderOfHive |-> borderOfHive,
     possibleMovesOfSelectedTile |-> possibleMovesOfSelectedTile,
     isPlayerTileSelected |-> isPlayerTileSelected,
     indexOfPlayerTileSelected |-> indexOfPlayerTileSelected,
     pointerToSelectedTile |-> pointerToSelectedTile,
     originalCordsOfSelectedTile |-> originalCordsOfSelectedTile,
     turn |-> turn,
     idOfPlayerOnTurn |-> idOfPlayerOnTurn,
     players |-> players,
     gameInterupted |-> gameInterupted,
     messageToDisplay |-> messageToDisplay,
     erasedIteratorUsed |-> erasedIteratorUsed]

\* what the click just handled did: "place" or "move" when it reached
\* MoveHex, "frozen" when CheckInputs skipped it, "none" otherwise
Applied(s, input) ==
    IF s.gameInterupted THEN "frozen"
    ELSE IF ~input.inField /\ ClickAppliesMoveHex(s, input.cords)
    THEN IF s.isPlayerTileSelected THEN "place" ELSE "move"
    ELSE "none"

\* what lay under the cursor when the click arrived
Target(s, input) ==
    IF input.inField THEN "hand"
    ELSE IF input.cords \notin DOMAIN s.gameMap THEN "off map"
    ELSE IF s.gameMap[input.cords] = nullptr THEN "empty cell"
    ELSE IF GetPlayerID(s.gameMap[input.cords]) = s.idOfPlayerOnTurn THEN "own tile"
    ELSE "opponent tile"

Init ==
    /\ gameMap = GameEngine.gameMap
    /\ borderOfHive = GameEngine.borderOfHive
    /\ possibleMovesOfSelectedTile = GameEngine.possibleMovesOfSelectedTile
    /\ isPlayerTileSelected = GameEngine.isPlayerTileSelected
    /\ indexOfPlayerTileSelected = GameEngine.indexOfPlayerTileSelected
    /\ pointerToSelectedTile = GameEngine.pointerToSelectedTile
    /\ originalCordsOfSelectedTile = GameEngine.originalCordsOfSelectedTile
    /\ turn = GameEngine.turn
    /\ idOfPlayerOnTurn = GameEngine.idOfPlayerOnTurn
    /\ players = GameEngine.players
    /\ gameInterupted = GameEngine.gameInterupted
    /\ messageToDisplay = GameEngine.messageToDisplay
    /\ erasedIteratorUsed = GameEngine.erasedIteratorUsed
    \* the clicks of Spec are given by the slot or the cell under the cursor
    /\ windowSize = [y |-> WindowHeight(1080)]
    /\ mousePosition = [x |-> 0, y |-> 0]
    /\ script \in Openings
    /\ clicks = 0
    /\ last = [inField |-> FALSE, index |-> -1, target |-> "none",
               legal |-> FALSE, applied |-> "init", selected |-> nullptr,
               from |-> NoCords, to |-> NoCords, actions |-> 0]

\* one click: the scripted one while the opening lasts, then any
Click(input) ==
    /\ IF script # <<>> THEN input = Head(script) ELSE clicks < MaxClicks
    /\ LET s == State
           t == CheckInputs(s, input.inField, input.index, input.cords)
       IN  /\ gameMap' = t.gameMap
           /\ borderOfHive' = t.borderOfHive
           \* a use of the erased iterator leaves any set behind
           /\ possibleMovesOfSelectedTile' \in
                 IF t.erasedIteratorUsed /\ ~s.erasedIteratorUsed
                 THEN SUBSET (GetNeighborsOfTile(t.gameMap, t.originalCordsOfSelectedTile)
                                \cap DOMAIN t.gameMap)
                 ELSE {t.possibleMovesOfSelectedTile}
           /\ isPlayerTileSelected' = t.isPlayerTileSelected
           /\ indexOfPlayerTileSelected' = t.indexOfPlayerTileSelected
           /\ pointerToSelectedTile' = t.pointerToSelectedTile
           /\ originalCordsOfSelectedTile' = t.originalCordsOfSelectedTile
           /\ turn' = t.turn
           /\ idOfPlayerOnTurn' = t.idOfPlayerOnTurn
           /\ players' = t.players
           /\ gameInterupted' = t.gameInterupted
           /\ messageToDisplay' = t.messageToDisplay
           /\ erasedIteratorUsed' = t.erasedIteratorUsed
           /\ last' = [inField |-> input.inField,
                       index |-> input.index,
                       target |-> Target(s, input),
                       legal |-> input.cords \in s.possibleMovesOfSelectedTile,
                       applied |-> Applied(s, input),
                       selected |-> s.pointerToSelectedTile,
                       from |-> IF Applied(s, input) = "move"
                                THEN s.originalCordsOfSelectedTile ELSE NoCords,
                       to |-> IF Applied(s, input) \in {"place", "move"}
                              THEN input.cords ELSE NoCords,
                       \* the placements and moves completed so far
                       actions |-> IF Applied(s, input) \in {"place", "move"}
                                   THEN last.actions + 1 ELSE last.actions]
    /\ script' = IF script # <<>> THEN Tail(script) ELSE script
    /\ clicks' = IF script # <<>> THEN clicks ELSE clicks + 1
    /\ UNCHANGED <<windowSize, mousePosition>>

CheckInputsInPlayerField ==
    \E index \in FieldClickIndexes : Click(FieldClick(index))

CheckInputsInHexMap ==
    \E cords \in MapClickCords : Click(MapClick(cords))

Next == CheckInputsInPlayerField \/ CheckInputsInHexMap

Spec == Init /\ [][Next]_vars

-----------------------------------------------------------------------------
(* The first click of a game, in the hand of the player on turn, with the  *)
(* slot computed from the cursor as GetIndexOfHexInPlayerField does.       *)

InitRenderer ==
    /\ gameMap = GameEngine.gameMap
    /\ borderOfHive = GameEngine.borderOfHive
    /\ possibleMovesOfSelectedTile = GameEngine.possibleMovesOfSelectedTile
    /\ isPlayerTileSelected = GameEngine.isPlayerTileSelected
    /\ indexOfPlayerTileSelected = GameEngine.indexOfPlayerTileSelected
    /\ pointerToSelectedTile = GameEngine.pointerToSelectedTile
    /\ originalCordsOfSelectedTile = GameEngine.originalCordsOfSelectedTile
    /\ turn = GameEngine.turn
    /\ idOfPlayerOnTurn = GameEngine.idOfPlayerOnTurn
    /\ players = GameEngine.players
    /\ gameInterupted = GameEngine.gameInterupted
    /\ messageToDisplay = GameEngine.messageToDisplay
    /\ erasedIteratorUsed = GameEngine.erasedIteratorUsed
    /\ windowSize \in {[y |-> WindowHeight(m)] : m \in MonitorHeights}
    /\ mousePosition \in
          [x : MouseXs,
           y : {k * MouseStep : k \in 0..(WindowHeight(1440) \div MouseStep)}]
    /\ mousePosition.y < windowSize.y
    /\ script = <<>>
    /\ clicks = 0
    /\ last = [inField |-> FALSE, index |-> -1, target |-> "none",
               legal |-> FALSE, applied |-> "init", selected |-> nullptr,
               from |-> NoCords, to |-> NoCords, actions |-> 0]

\* CheckInputs for a click in the hand of the player on turn
CheckInputsAtCursor ==
    /\ clicks = 0
    /\ ~gameInterupted
    /\ LET s == State
           index == GetIndexOfHexInPlayerField(windowSize.y, mousePosition)
       IN  \E t0 \in IF index \in FieldClickIndexes
                      THEN {CheckInputInPlayerField(s, index)}
                      ELSE CheckInputInPlayerFieldOutOfBounds(s, index) :
              LET t == UpdatePossibleMovesOnSelectedTile(t0)
              IN  /\ gameMap' = t.gameMap
                  /\ borderOfHive' = t.borderOfHive
                  /\ possibleMovesOfSelectedTile' = t.possibleMovesOfSelectedTile
                  /\ isPlayerTileSelected' = t.isPlayerTileSelected
                  /\ indexOfPlayerTileSelected' = t.indexOfPlayerTileSelected
                  /\ pointerToSelectedTile' = t.pointerToSelectedTile
                  /\ originalCordsOfSelectedTile' = t.originalCordsOfSelectedTile
                  /\ turn' = t.turn
                  /\ idOfPlayerOnTurn' = t.idOfPlayerOnTurn
                  /\ players' = t.players
                  /\ gameInterupted' = t.gameInterupted
                  /\ messageToDisplay' = t.messageToDisplay
                  /\ erasedIteratorUsed' = t.erasedIteratorUsed
                  /\ last' = [last EXCEPT !.inField = TRUE,
                                          !.index = index,
                                          !.target = "hand",
                                          !.applied = "none"]
    /\ clicks' = clicks + 1
    /\ UNCHANGED <<script, windowSize, mousePosition>>

NextRenderer == CheckInputsAtCursor

SpecRenderer == InitRenderer /\ [][NextRenderer]_vars

-----------------------------------------------------------------------------
(* Vocabulary of the properties, defined from the board alone.             *)

OccupiedCells == {c \in DOMAIN gameMap : gameMap[c] # nullptr}

Adjacent(a, b) ==
    \E i \in 1..SIZE_OF_AXIAL_VECTORS : b = Plus(a, AXIAL_DIRECTION_VECTORS[i])

RECURSIVE Component(_, _)
\* the cells of S reachable from the cells of R through adjacent cells of S
Component(R, S) ==
    LET more == {c \in S \ R : \E d \in R : Adjacent(c, d)}
    IN  IF more = {} THEN R ELSE Component(R \cup more, S)

IsOneComponent(S) ==
    S = {} \/ (LET c == CHOOSE c \in S : TRUE IN Component({c}, S) = S)

\* the empty cells of the map with at least one occupied neighbour
Frontier ==
    {c \in DOMAIN gameMap :
        /\ gameMap[c] = nullptr
        /\ \E d \in OccupiedCells : Adjacent(c, d)}

\* the pieces on the board, covered ones included, as <<cell, depth>>
PiecesOnBoard(playerId, type) ==
    {cd \in UNION {{<<c, k>> : k \in 1..Len(gameMap[c])} : c \in OccupiedCells} :
        gameMap[cd[1]][cd[2]] = TileData(type, playerId)}

\* playerId's queen is on the board, visible or covered, and all six
\* neighbouring cells are occupied
QueenSurrounded(playerId) ==
    \E cd \in PiecesOnBoard(playerId, "QUEEN_BEE") :
        \A i \in 1..SIZE_OF_AXIAL_VECTORS :
            Plus(cd[1], AXIAL_DIRECTION_VECTORS[i]) \in OccupiedCells

\* the status ChangeTurn acted on, read back from what it left behind
EvaluatedStatus ==
    IF ~gameInterupted THEN "NORMAL"
    ELSE IF messageToDisplay = DRAW_MESSAGE THEN "DRAW"
    ELSE IF messageToDisplay = WinningMessage(PlayerName[0]) THEN "FIRST_PLAYER_WON"
    ELSE IF messageToDisplay = WinningMessage(PlayerName[1]) THEN "SECOND_PLAYER_WON"
    ELSE "NONE"

ActionCompleted == last.applied \in {"place", "move"}

\* A tile on the board is selected and Move has been asked for its
\* destinations: they are possibleMovesOfSelectedTile, the tile stands on
\* originalCordsOfSelectedTile.
MoveAsked ==
    /\ pointerToSelectedTile # nullptr
    /\ ~isPlayerTileSelected
    /\ HasPlacedQueen(players[idOfPlayerOnTurn])

MoveAskedOf(type) == MoveAsked /\ GetBugType(pointerToSelectedTile) = type

\* the selected tile is a Beetle standing on another tile
CoveringBeetleSelected ==
    MoveAskedOf("BEETLE") /\ Len(pointerToSelectedTile) > 1

OccupiedNeighbours(c) == {d \in OccupiedCells : Adjacent(c, d)}

\* the hive without the tile on c is one connected component (or empty)
StaysConnectedWithout(c) == IsOneComponent(OccupiedCells \ {c})

\* the hive is one connected component and stays one without the tile on c
HiveStaysConnectedWithout(c) ==
    IsOneComponent(OccupiedCells) /\ StaysConnectedWithout(c)

\* the spec's precondition of a move from c
MovementPrecondition(c) ==
    HiveStaysConnectedWithout(c) /\ Cardinality(OccupiedNeighbours(c)) <= 4

\* The erased iterator of RemovePossibleMovesAroundTile is never used.
NoErasedIteratorUse == ~erasedIteratorUsed

-----------------------------------------------------------------------------
(* C1: after every completed placement or move the occupied cells form a   *)
(* single connected component under hex adjacency, whatever the type of    *)
(* the piece that moved.                                                   *)
OneHive == IsOneComponent(OccupiedCells)

(* C2: in every reachable state, the constructed one included,             *)
(* borderOfHive is exactly the set of empty map cells with at least one    *)
(* occupied neighbour.                                                     *)
FrontierAlways == borderOfHive = Frontier

(* C2 as amended: once a piece is on the board borderOfHive is exactly     *)
(* the set of empty map cells with an occupied neighbour; on the empty     *)
(* board it is the seed cell alone.                                        *)
FrontierOncePlaced ==
    IF OccupiedCells = {}
    THEN borderOfHive = {CenterOfBoard}
    ELSE borderOfHive = Frontier

\* a move has just vacated a cell, which joined the frontier, and a cell
\* next to it left the frontier
FrontierOncePlacedWitness ==
    /\ last.applied = "move"
    /\ last.from \in borderOfHive
    /\ \E i \in 1..SIZE_OF_AXIAL_VECTORS :
          LET n == Plus(last.from, AXIAL_DIRECTION_VECTORS[i])
          IN  n \in DOMAIN gameMap /\ gameMap[n] = nullptr /\ n \notin borderOfHive

(* C3: while the turn counter is 4 and the queen of the player on turn is  *)
(* still in the hand, nothing but that queen from the hand can be          *)
(* selected, so the only action that can be applied is placing the queen.  *)
QueenDeadline ==
    (turn = 4 /\ ~HasPlacedQueen(players[idOfPlayerOnTurn]))
        => \/ pointerToSelectedTile = nullptr
           \/ /\ isPlayerTileSelected
              /\ indexOfPlayerTileSelected = 0
              /\ pointerToSelectedTile = <<TileData("QUEEN_BEE", idOfPlayerOnTurn)>>

\* at the deadline the player clicked a hand slot other than the queen that
\* still has pieces, and nothing is selected
QueenDeadlineWitness ==
    /\ turn = 4
    /\ ~HasPlacedQueen(players[idOfPlayerOnTurn])
    /\ last.inField
    /\ last.index \in 1..(DIFFERENT_PIECES_COUNT - 1)
    /\ players[idOfPlayerOnTurn][last.index].second > 0
    /\ last.applied = "none"
    /\ pointerToSelectedTile = nullptr

(* C4: the status evaluated after every completed placement or move is     *)
(* Player1Won iff only player 2's queen has all six neighbours occupied,   *)
(* Player2Won iff only player 1's queen has, Draw iff both have, Normal    *)
(* otherwise.                                                              *)
StatusFollowsQueens ==
    ActionCompleted =>
        EvaluatedStatus =
            IF QueenSurrounded(0) /\ QueenSurrounded(1) THEN "DRAW"
            ELSE IF QueenSurrounded(1) THEN "FIRST_PLAYER_WON"
            ELSE IF QueenSurrounded(0) THEN "SECOND_PLAYER_WON"
            ELSE "NORMAL"

(* C5: once ChangeTurn has seen Draw or a win, no click changes anything   *)
(* of the engine again: board, frontier, inventories, turn counter,        *)
(* player on turn, selection, and the interrupted flag itself.             *)
TerminalFreeze == [][gameInterupted => UNCHANGED engineVars]_vars

\* a click arrived after the match had ended
TerminalFreezeWitness == gameInterupted /\ last.applied = "frozen"

(* C6: for each player and bug type, the count left in the hand plus the   *)
(* number of that player's pieces of that type on the board, covered ones  *)
(* included, is the seeded count.                                          *)
PieceConservation ==
    \A p \in 0..1 : \A i \in 0..(DIFFERENT_PIECES_COUNT - 1) :
        players[p][i].second
          + Cardinality(PiecesOnBoard(p, avaiblePlayerpieces[i].first))
            = avaiblePlayerpieces[i].second

\* a Beetle has just moved onto another piece
PieceConservationWitness ==
    /\ last.applied = "move"
    /\ GetBugType(last.selected) = "BEETLE"
    /\ \E c \in OccupiedCells : Len(gameMap[c]) = 2

(* C7: for every placement but the very first of the match, the second     *)
(* player's first one included, every legal coordinate has an occupied     *)
(* neighbour whose visible piece belongs to the placing player.            *)
PlacementAdjacency ==
    (isPlayerTileSelected /\ pointerToSelectedTile # nullptr /\ OccupiedCells # {})
        => \A c \in possibleMovesOfSelectedTile :
              \E d \in OccupiedCells :
                  Adjacent(c, d) /\ Head(gameMap[d]).playerId = idOfPlayerOnTurn

(* C7 as amended: for every placement made when the turn counter is not    *)
(* 0, that is every placement but the first one of each player, every      *)
(* legal coordinate has an occupied neighbour whose visible piece belongs  *)
(* to the placing player.                                                  *)
PlacementAdjacencyAfterTurnZero ==
    (isPlayerTileSelected /\ pointerToSelectedTile # nullptr /\ turn # 0)
        => \A c \in possibleMovesOfSelectedTile :
              \E d \in OccupiedCells :
                  Adjacent(c, d) /\ Head(gameMap[d]).playerId = idOfPlayerOnTurn

\* a hand piece is selected after turn 0, it can be placed somewhere, and
\* some frontier cell is refused
PlacementAdjacencyWitness ==
    /\ isPlayerTileSelected /\ pointerToSelectedTile # nullptr /\ turn # 0
    /\ possibleMovesOfSelectedTile # {}
    /\ borderOfHive \ possibleMovesOfSelectedTile # {}

(* C8: on the empty board the legal-placement set of any selected hand     *)
(* piece is exactly one coordinate, the seed cell at the centre of the     *)
(* board, and that cell is an empty cell of the generated map.             *)
OpeningPlacement ==
    (isPlayerTileSelected /\ pointerToSelectedTile # nullptr /\ OccupiedCells = {})
        => /\ Cardinality(possibleMovesOfSelectedTile) = 1
           /\ possibleMovesOfSelectedTile = {CenterOfBoard}
           /\ \A c \in possibleMovesOfSelectedTile :
                 c \in DOMAIN gameMap /\ gameMap[c] = nullptr

\* a hand piece is selected on the empty board
OpeningPlacementWitness ==
    /\ isPlayerTileSelected /\ pointerToSelectedTile # nullptr
    /\ OccupiedCells = {}
    /\ last.inField

(* C9: a click on a map cell that is not a legal destination of the        *)
(* selected piece leaves board, frontier, inventories, turn counter,       *)
(* player on turn and status unchanged.                                    *)
RejectedClickChangesNothing ==
    [][(/\ <<script, clicks>> # <<script', clicks'>>
        /\ ~last'.inField
        /\ pointerToSelectedTile # nullptr
        /\ ~last'.legal)
       => UNCHANGED <<gameMap, borderOfHive, players, turn, idOfPlayerOnTurn,
                      gameInterupted, messageToDisplay>>]_vars

\* with a piece selected, the player clicked an empty cell of the map that
\* was not among its destinations
RejectedClickWitness ==
    /\ ~last.inField
    /\ last.selected # nullptr
    /\ ~last.legal
    /\ last.applied = "none"
    /\ last.target = "empty cell"

(* C10: computing the legal destinations of a selected piece, the          *)
(* connectivity oracle's removal and flood fill included, leaves the       *)
(* board and the frontier as they were, whether the result is empty or     *)
(* not.                                                                    *)
QueryLeavesBoardAlone ==
    [][(last'.applied = "none" /\ pointerToSelectedTile' # nullptr)
       => UNCHANGED <<gameMap, borderOfHive>>]_vars

\* a piece on the board was selected whose removal would split the hive,
\* so the oracle ran, filled its copy and refused
QueryLeavesBoardAloneWitness ==
    /\ last.applied = "none"
    /\ pointerToSelectedTile # nullptr
    /\ ~isPlayerTileSelected
    /\ HasPlacedQueen(players[idOfPlayerOnTurn])
    /\ Len(pointerToSelectedTile) = 1
    /\ ~IsOneComponent(OccupiedCells \ {originalCordsOfSelectedTile})
    /\ possibleMovesOfSelectedTile = {}

-----------------------------------------------------------------------------
(* C11: Beetle stacking round trip.  Whenever a Beetle is moved, it is the *)
(* tile standing on its origin; on the destination it becomes the visible  *)
(* piece and carries exactly what stood there before (the previous piece   *)
(* when the cell was occupied, nothing when it was empty); and the origin  *)
(* gets back exactly what the Beetle carried (the covered piece, type and  *)
(* owner unchanged, or nothing).  Climbing from A onto B and then leaving   *)
(* B for an empty cell therefore restores B's piece.                       *)
BeetleRoundTrip ==
    [][(/\ last'.applied = "move"
        /\ pointerToSelectedTile # nullptr
        /\ GetBugType(pointerToSelectedTile) = "BEETLE")
       => LET A == originalCordsOfSelectedTile
              B == last'.to
          IN  /\ pointerToSelectedTile = gameMap[A]
              /\ Head(gameMap'[B]) = Head(pointerToSelectedTile)
              /\ Tail(gameMap'[B]) = gameMap[B]
              /\ gameMap'[A] = Tail(pointerToSelectedTile)]_vars

\* a Beetle that had climbed onto a queen has just left it for an empty
\* cell: the queen is visible again and the Beetle carries nothing
BeetleRoundTripWitness ==
    /\ last.applied = "move"
    /\ GetBugType(last.selected) = "BEETLE"
    /\ Len(last.selected) = 2
    /\ last.selected[2].type = "QUEEN_BEE"
    /\ gameMap[last.from] = <<last.selected[2]>>
    /\ gameMap[last.to] = <<last.selected[1]>>

-----------------------------------------------------------------------------
(* C12: in every reachable state each cell holds at most two pieces, a     *)
(* visible one and at most one hidden beneath it.                          *)
StackingDepth ==
    \A c \in DOMAIN gameMap : Len(gameMap[c]) <= 2

\* the Beetles of both hands together
NumberOfBeetles == 2 * avaiblePlayerpieces[2].second

(* C12 as amended: on every cell each piece that has another piece beneath *)
(* it is a Beetle, so a cell holds at most one piece more than there are   *)
(* Beetles in the game; a Beetle can stand on a Beetle that is itself      *)
(* covering a piece.                                                       *)
StackingOfBeetles ==
    \A c \in DOMAIN gameMap :
        /\ Len(gameMap[c]) <= 1 + NumberOfBeetles
        /\ \A k \in 1..(Len(gameMap[c]) - 1) : gameMap[c][k].type = "BEETLE"

\* a Beetle has just climbed onto a Beetle that covers a queen
StackingOfBeetlesWitness ==
    /\ last.applied = "move"
    /\ Len(gameMap[last.to]) = 3
    /\ gameMap[last.to][1].type = "BEETLE"
    /\ gameMap[last.to][2].type = "BEETLE"
    /\ gameMap[last.to][3].type = "QUEEN_BEE"

-----------------------------------------------------------------------------
(* C13: turn progression.  A click that completes a placement or a move    *)
(* and leaves the match running hands the turn to the other player and     *)
(* adds 1 to the turn counter exactly when the acting player was not the   *)
(* starting player; the turn counter is then the number of completed full  *)
(* rounds and the player on turn is given by the parity of the completed   *)
(* actions.  Any other click leaves the turn counter and the player on     *)
(* turn alone.                                                             *)
TurnProgression ==
    [][<<script, clicks>> # <<script', clicks'>> =>
          IF last'.applied \in {"place", "move"}
          THEN ~gameInterupted' =>
                 /\ idOfPlayerOnTurn' = (idOfPlayerOnTurn + 1) % 2
                 /\ turn' = IF idOfPlayerOnTurn # startingPlayer
                            THEN turn + 1 ELSE turn
                 /\ turn' = last'.actions \div 2
                 /\ idOfPlayerOnTurn' = (startingPlayer + last'.actions) % 2
          ELSE /\ turn' = turn
               /\ idOfPlayerOnTurn' = idOfPlayerOnTurn]_vars

\* the second player has just completed a free action that closed a round
TurnProgressionWitness ==
    /\ clicks > 0
    /\ last.applied \in {"place", "move"}
    /\ ~gameInterupted
    /\ idOfPlayerOnTurn = startingPlayer
    /\ turn >= 2
    /\ last.actions = 2 * turn

-----------------------------------------------------------------------------
(* C14: for a selected piece of any type other than a Beetle covering a    *)
(* tile, Move returns the empty set whenever removing the piece would      *)
(* disconnect the hive or the origin has more than 4 occupied neighbours.  *)
SharedMovementPrecondition ==
    (MoveAsked /\ ~CoveringBeetleSelected
       /\ ~MovementPrecondition(originalCordsOfSelectedTile))
    => possibleMovesOfSelectedTile = {}

(* C14 as amended: for every such piece Move returns the empty set when    *)
(* removing it would disconnect the hive; for QueenBee, Spider and         *)
(* SoldierAnt also when the origin has more than 4 occupied neighbours.    *)
MovementPreconditionByType ==
    (MoveAsked /\ ~CoveringBeetleSelected)
    => LET c == originalCordsOfSelectedTile
       IN  (\/ ~StaysConnectedWithout(c)
            \/ /\ GetBugType(pointerToSelectedTile) \in
                      {"QUEEN_BEE", "SPIDER", "SOLDIER_ANT"}
               /\ Cardinality(OccupiedNeighbours(c)) > 4)
           => possibleMovesOfSelectedTile = {}

\* a queen whose removal keeps the hive connected, hemmed in by five
\* neighbours, has been selected
MovementPreconditionByTypeWitness ==
    /\ MoveAskedOf("QUEEN_BEE")
    /\ StaysConnectedWithout(originalCordsOfSelectedTile)
    /\ Cardinality(OccupiedNeighbours(originalCordsOfSelectedTile)) > 4
    /\ possibleMovesOfSelectedTile = {}

-----------------------------------------------------------------------------
\* k steps from c in direction number i
Steps(c, i, k) ==
    HexCords(c[1] + k * AXIAL_DIRECTION_VECTORS[i][1],
             c[2] + k * AXIAL_DIRECTION_VECTORS[i][2])

\* no straight line of the generated board is longer than this
LongestLine == HEXAGON_VERTICAL_COUNT + hexagonHorizontalCount

\* for each direction whose first cell is occupied, the first coordinate
\* that holds no piece after the run of occupied cells
GrasshopperLandings(c) ==
    {d \in {Steps(c, i, k) : i \in 1..SIZE_OF_AXIAL_VECTORS, k \in 2..LongestLine} :
        \E i \in 1..SIZE_OF_AXIAL_VECTORS, k \in 2..LongestLine :
            /\ d = Steps(c, i, k)
            /\ d \notin OccupiedCells
            /\ \A j \in 1..(k - 1) : Steps(c, i, j) \in OccupiedCells}

-----------------------------------------------------------------------------
\* the frontier cells next to c
FrontierNextTo(c) == {d \in Frontier : Adjacent(c, d)}

\* the ends of the paths o -> c1 -> c2 -> c between adjacent cells with
\* c1, c2, c pairwise distinct frontier cells (empty, and so other than o)
ThreeStepPathEnds(o) ==
    {c \in Frontier :
        \E c1 \in FrontierNextTo(o) :
            \E c2 \in FrontierNextTo(c1) :
                /\ c \in FrontierNextTo(c2)
                /\ c1 # c2 /\ c1 # c /\ c2 # c}

\* the frontier cells such a path reaches in one or two steps
WithinTwoSteps(o) ==
    FrontierNextTo(o) \cup UNION {FrontierNextTo(c1) : c1 \in FrontierNextTo(o)}

(* C16: when the movement precondition holds, the destinations of a        *)
(* selected Spider are exactly the cells c with a path                     *)
(* origin -> c1 -> c2 -> c of 3 steps between adjacent cells, c1, c2, c    *)
(* pairwise distinct, other than the origin, empty and in the frontier.    *)
SpiderDestinations ==
    (MoveAskedOf("SPIDER") /\ MovementPrecondition(originalCordsOfSelectedTile))
    => possibleMovesOfSelectedTile =
           ThreeStepPathEnds(originalCordsOfSelectedTile)

(* C16 as amended: the destinations are exactly the ends of such 3-step    *)
(* paths that no such path of 1 or 2 steps reaches.                        *)
SpiderDestinationsNotNearer ==
    (MoveAskedOf("SPIDER") /\ MovementPrecondition(originalCordsOfSelectedTile))
    => possibleMovesOfSelectedTile =
           ThreeStepPathEnds(originalCordsOfSelectedTile)
               \ WithinTwoSteps(originalCordsOfSelectedTile)

\* a selected Spider has a destination, and a 3-step path also ends on a
\* cell that is nearer and not offered
SpiderDestinationsNotNearerWitness ==
    /\ MoveAskedOf("SPIDER")
    /\ MovementPrecondition(originalCordsOfSelectedTile)
    /\ possibleMovesOfSelectedTile # {}
    /\ ThreeStepPathEnds(originalCordsOfSelectedTile)
           \cap WithinTwoSteps(originalCordsOfSelectedTile) # {}

-----------------------------------------------------------------------------
-----------------------------------------------------------------------------
(* C18: when the movement precondition holds, every destination of a       *)
(* selected QueenBee is an empty neighbour of the origin in the frontier,  *)
(* and none is a surrounded cell, an empty cell with more than 4 occupied  *)
(* neighbours.                                                             *)
QueenBeeDestinations ==
    (MoveAskedOf("QUEEN_BEE")
       /\ MovementPrecondition(originalCordsOfSelectedTile))
    => \A d \in possibleMovesOfSelectedTile :
          /\ d \in Frontier
          /\ Adjacent(originalCordsOfSelectedTile, d)
          /\ Cardinality(OccupiedNeighbours(d)) <= 4

-----------------------------------------------------------------------------
\* the 6 coordinates next to c, on the generated map or not
AllNeighbours(c) == {Steps(c, i, 1) : i \in 1..SIZE_OF_AXIAL_VECTORS}

\* the cells of the map next to c that hold no piece
EmptyNeighbours(c) == (AllNeighbours(c) \cap DOMAIN gameMap) \ OccupiedCells

(* C19: a selected Beetle covering a tile gets all 6 neighbours of its     *)
(* origin; a selected Beetle covering nothing whose removal keeps the hive *)
(* connected gets all 6 neighbours, occupied or empty, minus exactly the   *)
(* empty ones with more than 4 occupied neighbours.                        *)
BeetleDestinations ==
    /\ CoveringBeetleSelected
         => possibleMovesOfSelectedTile = AllNeighbours(originalCordsOfSelectedTile)
    /\ (MoveAskedOf("BEETLE") /\ ~CoveringBeetleSelected
           /\ HiveStaysConnectedWithout(originalCordsOfSelectedTile))
         => possibleMovesOfSelectedTile =
                AllNeighbours(originalCordsOfSelectedTile)
                  \ {d \in EmptyNeighbours(originalCordsOfSelectedTile) :
                         Cardinality(OccupiedNeighbours(d)) > 4}

(* C19 as amended: the Beetle covering nothing gets all 6 neighbours minus *)
(* exactly the empty ones with at most 1 occupied neighbour, those that    *)
(* touch the hive through the Beetle alone.                                *)
BeetleDestinationsInContact ==
    /\ CoveringBeetleSelected
         => possibleMovesOfSelectedTile = AllNeighbours(originalCordsOfSelectedTile)
    /\ (MoveAskedOf("BEETLE") /\ ~CoveringBeetleSelected
           /\ HiveStaysConnectedWithout(originalCordsOfSelectedTile))
         => possibleMovesOfSelectedTile =
                AllNeighbours(originalCordsOfSelectedTile)
                  \ {d \in EmptyNeighbours(originalCordsOfSelectedTile) :
                         Cardinality(OccupiedNeighbours(d)) <= 1}

\* a selected Beetle covering nothing is offered an occupied and an empty
\* neighbour, and not the empty neighbour that only it touches
BeetleDestinationsInContactWitness ==
    /\ MoveAskedOf("BEETLE") /\ ~CoveringBeetleSelected
    /\ HiveStaysConnectedWithout(originalCordsOfSelectedTile)
    /\ possibleMovesOfSelectedTile \cap OccupiedCells # {}
    /\ possibleMovesOfSelectedTile
           \cap EmptyNeighbours(originalCordsOfSelectedTile) # {}
    /\ EmptyNeighbours(originalCordsOfSelectedTile)
           \ possibleMovesOfSelectedTile # {}

-----------------------------------------------------------------------------
(* C20: on every board reached and for every cell c holding a single       *)
(* piece, CheckIntegrityOfHiveWithoutOneTile(board, c) is true exactly     *)
(* when the occupied cells other than c form one connected component or    *)
(* none is left, also when c has no occupied neighbour.                    *)
OracleCorrect ==
    \A c \in OccupiedCells :
        Len(gameMap[c]) = 1
        => (CheckIntegrityOfHiveWithoutOneTile(gameMap, c).result
              <=> StaysConnectedWithout(c))

-----------------------------------------------------------------------------
(* C21: moves require a placed queen.  Whenever a tile on the board is     *)
(* selected while the queen of the player on turn is still in the hand,    *)
(* the destinations computed for it are the empty set, and no move is ever *)
(* applied for a player whose queen is in the hand: such a player's        *)
(* applied actions are placements only.                                    *)
QueenBeforeMoves ==
    [][/\ (/\ pointerToSelectedTile' # nullptr
           /\ ~isPlayerTileSelected'
           /\ ~HasPlacedQueen(players'[idOfPlayerOnTurn']))
          => possibleMovesOfSelectedTile' = {}
       /\ (/\ last'.applied \in {"place", "move"}
           /\ ~HasPlacedQueen(players[idOfPlayerOnTurn]))
          => /\ last'.applied = "place"
             /\ isPlayerTileSelected]_vars

\* a player with the queen in the hand has selected an own tile on the
\* board that Move would let go somewhere, and got no destination
QueenBeforeMovesWitness ==
    /\ pointerToSelectedTile # nullptr
    /\ ~isPlayerTileSelected
    /\ ~HasPlacedQueen(players[idOfPlayerOnTurn])
    /\ last.target = "own tile"
    /\ possibleMovesOfSelectedTile = {}
    /\ Move(pointerToSelectedTile, gameMap, borderOfHive,
            originalCordsOfSelectedTile) # {}

-----------------------------------------------------------------------------
(* C22: inventory bound.  A hand slot whose count is 0 is never selected,  *)
(* so it is never placed; a placement takes the piece of the selected slot *)
(* of the player on turn, lowers that slot's count by exactly 1 and leaves *)
(* every other count of both players alone; no other click changes a       *)
(* count; and no count is ever negative.                                   *)
InventoryBound ==
    [][/\ (isPlayerTileSelected' /\ pointerToSelectedTile' # nullptr)
          => /\ indexOfPlayerTileSelected' \in 0..(DIFFERENT_PIECES_COUNT - 1)
             /\ players'[idOfPlayerOnTurn'][indexOfPlayerTileSelected'].second > 0
             /\ pointerToSelectedTile' =
                   <<TileData(avaiblePlayerpieces[indexOfPlayerTileSelected'].first,
                              idOfPlayerOnTurn')>>
       /\ IF last'.applied = "place"
          THEN /\ players[idOfPlayerOnTurn][indexOfPlayerTileSelected].second > 0
               /\ gameMap'[last'.to] = pointerToSelectedTile
               /\ players' =
                     [players EXCEPT
                         ![idOfPlayerOnTurn][indexOfPlayerTileSelected].second = @ - 1]
          ELSE players' = players
       /\ \A p \in 0..1 : \A i \in 0..(DIFFERENT_PIECES_COUNT - 1) :
             players'[p][i].second >= 0]_vars

\* the player on turn clicked a hand slot that is used up, and nothing is
\* selected
InventoryBoundWitness ==
    /\ last.inField
    /\ last.index \in 0..(DIFFERENT_PIECES_COUNT - 1)
    /\ last.applied = "none"
    /\ players[idOfPlayerOnTurn][last.index].second = 0
    /\ pointerToSelectedTile = nullptr
    /\ ~isPlayerTileSelected

-----------------------------------------------------------------------------
(* C23: click elsewhere cancels.  Whenever a tile is selected, from the    *)
(* hand or on the board, and a click lands anywhere but on one of its      *)
(* destinations or on the selected tile itself (an empty cell and a cell   *)
(* of the opponent included), that tile is not selected afterwards, so a   *)
(* later click on a former destination applies nothing.                    *)
Selection == <<isPlayerTileSelected, indexOfPlayerTileSelected, originalCordsOfSelectedTile>>

ClickElsewhereCancels ==
    [][(/\ <<script, clicks>> # <<script', clicks'>>
        /\ ~gameInterupted
        /\ pointerToSelectedTile # nullptr
        /\ ~(~last'.inField /\ last'.legal)
        /\ ~(last'.inField /\ isPlayerTileSelected
                /\ last'.index = indexOfPlayerTileSelected)
        /\ ~(last'.target = "own tile" /\ Selection' = Selection))
       => (pointerToSelectedTile' = nullptr \/ Selection' # Selection)]_vars

-----------------------------------------------------------------------------
(* C24: only the player on turn acts, and only on visible pieces.  A       *)
(* selected tile always belongs to the player on turn and, when it is on   *)
(* the board, is the tile standing on its cell; an applied placement puts  *)
(* a piece of the player on turn on the board out of that player's hand;   *)
(* an applied move relocates the visible piece of the origin, which the    *)
(* player on turn owns; and every covered piece stays on its cell.         *)
IsSuffix(a, b) ==
    /\ Len(a) <= Len(b)
    /\ \A k \in 1..Len(a) : a[k] = b[Len(b) - Len(a) + k]

OnlyActiveVisible ==
    [][/\ pointerToSelectedTile' # nullptr
          => /\ GetPlayerID(pointerToSelectedTile') = idOfPlayerOnTurn'
             /\ ~isPlayerTileSelected'
                   => /\ originalCordsOfSelectedTile' \in DOMAIN gameMap'
                      /\ pointerToSelectedTile'
                            = gameMap'[originalCordsOfSelectedTile']
       /\ last'.applied = "place"
          => /\ GetPlayerID(gameMap'[last'.to]) = idOfPlayerOnTurn
             /\ \E i \in 0..(DIFFERENT_PIECES_COUNT - 1) :
                   /\ GetBugType(gameMap'[last'.to]) = avaiblePlayerpieces[i].first
                   /\ players'[idOfPlayerOnTurn][i].second
                         = players[idOfPlayerOnTurn][i].second - 1
       /\ last'.applied = "move"
          => /\ Head(gameMap[last'.from]).playerId = idOfPlayerOnTurn
             /\ Head(gameMap'[last'.to]) = Head(gameMap[last'.from])
       /\ \A c \in DOMAIN gameMap :
             gameMap[c] # nullptr => IsSuffix(Tail(gameMap[c]), gameMap'[c])]_vars

\* a Beetle has just climbed onto a visible piece of the opponent, which
\* stays on its cell beneath it
OnlyActiveVisibleWitness ==
    /\ last.applied = "move"
    /\ Len(gameMap[last.to]) >= 2
    /\ gameMap[last.to][2].playerId # gameMap[last.to][1].playerId
    /\ gameMap[last.to][1] = Head(last.selected)

-----------------------------------------------------------------------------
\* the origin o and the frontier cells reached from it in at most k steps
\* between adjacent cells, every step ending on a frontier cell
RECURSIVE WithinSteps(_, _)
WithinSteps(o, k) ==
    IF k = 0 THEN {o}
    ELSE LET nearer == WithinSteps(o, k - 1)
         IN  nearer \cup {d \in Frontier : \E c \in nearer : Adjacent(c, d)}

\* the frontier cells whose breadth-first distance from o is exactly k
AtDistance(o, k) == WithinSteps(o, k) \ WithinSteps(o, k - 1)

(* C25: Spider layered search.  For every Spider standing on the board the *)
(* search from its cell yields exactly the frontier cells at breadth-first *)
(* distance 3 from it, stepping between adjacent frontier cells: no cell   *)
(* first reached in 1 or 2 steps and no cell needing 4 or more; and these  *)
(* are the destinations of a selected Spider when the movement             *)
(* precondition holds.                                                     *)
SpiderLayeredSearch ==
    /\ \A c \in OccupiedCells :
          GetBugType(gameMap[c]) = "SPIDER"
          => LET found == FindPositionThreeSpacesFromOrigin(gameMap, borderOfHive, c)
             IN  /\ found = AtDistance(c, 3)
                 /\ found \cap WithinSteps(c, 2) = {}
                 /\ found \subseteq WithinSteps(c, 3)
    /\ (MoveAskedOf("SPIDER") /\ MovementPrecondition(originalCordsOfSelectedTile))
       => possibleMovesOfSelectedTile = AtDistance(originalCordsOfSelectedTile, 3)

\* the hive is a straight line of five tiles, the Spider at its end is
\* selected and has destinations, and there are frontier cells 1, 2 and
\* more than 3 steps away that are not among them
SpiderLayeredSearchWitness ==
    /\ MoveAskedOf("SPIDER")
    /\ \E i \in 1..SIZE_OF_AXIAL_VECTORS :
          OccupiedCells = {Steps(originalCordsOfSelectedTile, i, k) : k \in 0..4}
    /\ possibleMovesOfSelectedTile # {}
    /\ AtDistance(originalCordsOfSelectedTile, 1) # {}
    /\ AtDistance(originalCordsOfSelectedTile, 2) # {}
    /\ Frontier \ WithinSteps(originalCordsOfSelectedTile, 3) # {}
    /\ possibleMovesOfSelectedTile \cap WithinSteps(originalCordsOfSelectedTile, 2) = {}

-----------------------------------------------------------------------------
(* C26: placement effect.  An applied placement on coord, which was empty, *)
(* makes coord hold the selected piece and changes no other cell; the      *)
(* frontier becomes the old one without coord together with the empty      *)
(* neighbours of coord, so that no cell but coord leaves it.               *)
PlacementEffect ==
    [][last'.applied = "place"
       => LET coord == last'.to
          IN  /\ gameMap[coord] = nullptr
              /\ gameMap' = [gameMap EXCEPT ![coord] = pointerToSelectedTile]
              /\ borderOfHive' = (borderOfHive \ {coord}) \cup EmptyNeighbours(coord)
              /\ borderOfHive \ borderOfHive' = {coord}]_vars

\* a piece has just been placed next to others and has empty neighbours,
\* which are in the frontier now
PlacementEffectWitness ==
    /\ last.applied = "place"
    /\ Cardinality(OccupiedCells) >= 3
    /\ gameMap[last.to] = last.selected
    /\ EmptyNeighbours(last.to) # {}
    /\ EmptyNeighbours(last.to) \subseteq borderOfHive
    /\ last.to \notin borderOfHive

-----------------------------------------------------------------------------
(* C27: move frontier update.  After an applied move from `from` to `to`   *)
(* the frontier is the old one without `to`, with the empty neighbours of  *)
(* `to` added; if `from` became empty, `from` is added as well and the     *)
(* empty neighbours of `from` that have no occupied neighbour on the board *)
(* after the move are removed; if `from` still holds the piece the Beetle  *)
(* covered, `from` is not added and nothing is removed.                    *)
MoveFrontierUpdate ==
    [][last'.applied = "move"
       => LET from == last'.from
              to == last'.to
              EmptyAfter(c) ==
                  {d \in AllNeighbours(c) \cap DOMAIN gameMap : gameMap'[d] = nullptr}
              LonelyAfter(c) ==
                  \A d \in AllNeighbours(c) \cap DOMAIN gameMap : gameMap'[d] = nullptr
              arrived == (borderOfHive \ {to}) \cup EmptyAfter(to)
          IN  IF gameMap'[from] = nullptr
              THEN /\ borderOfHive' =
                         (arrived \cup {from})
                             \ {d \in EmptyAfter(from) : LonelyAfter(d)}
                   /\ from \in borderOfHive'
              ELSE /\ borderOfHive' = arrived
                   /\ from \notin borderOfHive'
                   /\ arrived \subseteq borderOfHive']_vars

\* a move has just vacated its origin, which is in the frontier with the
\* empty neighbours of the destination, while an empty neighbour of the
\* origin without occupied neighbours is not
MoveFrontierUpdateWitness ==
    /\ last.applied = "move"
    /\ gameMap[last.from] = nullptr
    /\ last.from \in borderOfHive
    /\ last.to \notin borderOfHive
    /\ EmptyNeighbours(last.to) \subseteq borderOfHive
    /\ \E d \in EmptyNeighbours(last.from) :
          OccupiedNeighbours(d) = {} /\ d \notin borderOfHive

-----------------------------------------------------------------------------
(* C28: move board effect.  An applied move changes the board at `from`    *)
(* and `to` only.  The moved tile is the one standing on `from`.  For a    *)
(* piece other than a Beetle `to` was empty, `from` becomes empty and `to` *)
(* holds the piece; for a Beetle `from` holds what the Beetle carried      *)
(* (nothing if it carried nothing) and `to` holds the Beetle carrying what *)
(* `to` held before.  Every other cell keeps its visible piece and what it *)
(* covers.                                                                 *)
MoveBoardEffect ==
    [][last'.applied = "move"
       => LET from == last'.from
              to == last'.to
              piece == pointerToSelectedTile
              isBeetle == GetBugType(piece) = "BEETLE"
          IN  /\ from # to
              /\ piece = gameMap[from]
              /\ ~isBeetle => (Len(piece) = 1 /\ gameMap[to] = nullptr)
              /\ \A c \in DOMAIN gameMap \ {from, to} : gameMap'[c] = gameMap[c]
              /\ gameMap'[from] = IF isBeetle THEN Tail(piece) ELSE nullptr
              /\ gameMap'[to] = IF isBeetle
                                THEN <<Head(piece)>> \o gameMap[to]
                                ELSE piece
              /\ DOMAIN gameMap' = DOMAIN gameMap]_vars

\* a piece other than a Beetle has just moved while a Beetle stands on
\* another piece elsewhere
MoveBoardEffectWitness ==
    /\ last.applied = "move"
    /\ GetBugType(last.selected) # "BEETLE"
    /\ gameMap[last.from] = nullptr
    /\ gameMap[last.to] = last.selected
    /\ \E c \in OccupiedCells \ {last.to} : Len(gameMap[c]) >= 2

-----------------------------------------------------------------------------
\* playerId's queen lies under a Beetle and all six neighbouring cells are
\* occupied
CoveredQueenSurrounded(playerId) ==
    \E cd \in PiecesOnBoard(playerId, "QUEEN_BEE") :
        /\ cd[2] >= 2
        /\ AllNeighbours(cd[1]) \subseteq OccupiedCells

(* C29: covered queen still loses.  If after a completed placement or move *)
(* a player's queen is covered by a Beetle and all six neighbours of its   *)
(* cell are occupied, the status is a win of the opponent, or Draw when    *)
(* the opponent's queen is surrounded too.                                 *)
CoveredQueenStillLoses ==
    ActionCompleted
    => \A p \in 0..1 :
          CoveredQueenSurrounded(p)
          => EvaluatedStatus =
                IF QueenSurrounded(1 - p) THEN "DRAW"
                ELSE IF p = 0 THEN "SECOND_PLAYER_WON"
                ELSE "FIRST_PLAYER_WON"

-----------------------------------------------------------------------------
\* what Place or Move returns for the selected tile on the present board,
\* frontier, turn counter and player on turn
FreshDestinations ==
    IF isPlayerTileSelected
    THEN Place(gameMap, borderOfHive, idOfPlayerOnTurn, turn = 0)
    ELSE IF HasPlacedQueen(players[idOfPlayerOnTurn])
    THEN Move(pointerToSelectedTile, gameMap, borderOfHive,
              originalCordsOfSelectedTile)
    ELSE {}

(* C30: no stale legal set.  After every click that leaves a tile          *)
(* selected, possibleMovesOfSelectedTile is what Place or Move returns for *)
(* that tile on the present board, frontier, turn counter and player on    *)
(* turn; whenever MoveHex applies a placement or a move, a tile is         *)
(* selected and the destination belongs to that set; and after the action  *)
(* nothing is selected.                                                    *)
NoStaleLegalSet ==
    /\ [](pointerToSelectedTile # nullptr
            => possibleMovesOfSelectedTile = FreshDestinations)
    /\ [][last'.applied \in {"place", "move"}
            => /\ pointerToSelectedTile # nullptr
               /\ last'.to \in FreshDestinations
               /\ pointerToSelectedTile' = nullptr
               /\ ~isPlayerTileSelected']_vars

\* an action has just been applied: nothing is selected, and the set the
\* action was taken from is still there
NoStaleLegalSetWitness ==
    /\ last.applied \in {"place", "move"}
    /\ last.selected # nullptr
    /\ pointerToSelectedTile = nullptr
    /\ ~isPlayerTileSelected
    /\ last.to \in possibleMovesOfSelectedTile
    /\ Cardinality(OccupiedCells) >= 2

-----------------------------------------------------------------------------
(* C31: queen placed by the deadline.  In every reachable state whose turn *)
(* counter is greater than 4 the queens of both players are placed: their  *)
(* hand count is 0.                                                        *)
QueenPlacedByDeadline ==
    turn > 4 => \A p \in 0..1 : HasPlacedQueen(players[p])

\* the second player has just placed the queen at turn 4 and the counter
\* went past 4
QueenPlacedByDeadlineWitness ==
    /\ turn = 5
    /\ last.applied = "place"
    /\ last.selected = <<TileData("QUEEN_BEE", (startingPlayer + 1) % 2)>>
    /\ \A p \in 0..1 : HasPlacedQueen(players[p])

-----------------------------------------------------------------------------
(* C32: only Beetles cover.  Every applied placement and every applied     *)
(* move of a QueenBee, Spider, Grasshopper or SoldierAnt targets an empty  *)
(* cell; an occupied cell changes only by losing its visible piece or by   *)
(* getting a Beetle on top that carries what the cell held; and every      *)
(* covered piece lies directly beneath a Beetle.                           *)
OnlyBeetlesCover ==
    /\ [](\A c \in OccupiedCells : \A k \in 2..Len(gameMap[c]) :
             gameMap[c][k - 1].type = "BEETLE")
    /\ [][/\ (/\ last'.applied \in {"place", "move"}
               /\ (last'.applied = "place"
                     \/ GetBugType(pointerToSelectedTile) # "BEETLE"))
              => gameMap[last'.to] = nullptr
           /\ \A c \in OccupiedCells :
                 \/ gameMap'[c] = gameMap[c]
                 \/ gameMap'[c] = Tail(gameMap[c])
                 \/ /\ Head(gameMap'[c]).type = "BEETLE"
                    /\ Tail(gameMap'[c]) = gameMap[c]]_vars

\* a Beetle has just moved onto a piece that is not a Beetle and carries it
OnlyBeetlesCoverWitness ==
    /\ last.applied = "move"
    /\ GetBugType(last.selected) = "BEETLE"
    /\ Len(gameMap[last.to]) = 2
    /\ gameMap[last.to][1] = Head(last.selected)
    /\ gameMap[last.to][2].type # "BEETLE"

-----------------------------------------------------------------------------
-----------------------------------------------------------------------------
\* a QueenBee or a Beetle that covers nothing
OneStepMover(tile) ==
    /\ tile # nullptr
    /\ Len(tile) = 1
    /\ GetBugType(tile) \in {"QUEEN_BEE", "BEETLE"}

(* C34: contact rule for one-step movers.  A selected QueenBee or Beetle   *)
(* covering nothing is never offered an empty cell whose only occupied     *)
(* neighbour is the piece's own origin, and after an applied move of such  *)
(* a piece the cell it stands on has an occupied neighbour.                *)
ContactRule ==
    /\ []((MoveAsked /\ OneStepMover(pointerToSelectedTile))
            => \A d \in possibleMovesOfSelectedTile :
                  (d \in DOMAIN gameMap /\ gameMap[d] = nullptr)
                  => OccupiedNeighbours(d) \ {originalCordsOfSelectedTile} # {})
    /\ [][(last'.applied = "move" /\ OneStepMover(pointerToSelectedTile))
            => \E d \in AllNeighbours(last'.to) \cap DOMAIN gameMap :
                  gameMap'[d] # nullptr]_vars

\* a selected QueenBee has destinations, and an empty neighbour of its
\* origin that touches no other tile is not among them
ContactRuleWitness ==
    /\ MoveAskedOf("QUEEN_BEE")
    /\ possibleMovesOfSelectedTile # {}
    /\ \E d \in EmptyNeighbours(originalCordsOfSelectedTile) :
          /\ OccupiedNeighbours(d) = {originalCordsOfSelectedTile}
          /\ d \in borderOfHive
          /\ d \notin possibleMovesOfSelectedTile

-----------------------------------------------------------------------------
(* C35: pieces stay on the finite board.  The key set of gameMap is that   *)
(* of the generated map in every state, every frontier cell is one of its  *)
(* keys; a click on an offered destination outside the map applies         *)
(* nothing; every applied placement or move puts the piece on a key of     *)
(* the generated map.                                                      *)
PiecesStayOnBoard ==
    /\ [](/\ DOMAIN gameMap = DOMAIN GenerateBaseMap
          /\ OccupiedCells \subseteq DOMAIN GenerateBaseMap
          /\ borderOfHive \subseteq DOMAIN GenerateBaseMap)
    /\ [][/\ (last'.legal /\ last'.target = "off map")
               => /\ gameMap' = gameMap
                  /\ borderOfHive' = borderOfHive
                  /\ turn' = turn
                  /\ players' = players
          /\ last'.applied \in {"place", "move"}
               => /\ last'.to \in DOMAIN GenerateBaseMap
                  /\ gameMap'[last'.to] # nullptr
                  /\ Head(gameMap'[last'.to]) = Head(pointerToSelectedTile)]_vars

\* a selected tile was offered a destination outside the map, the player
\* clicked on it and nothing was applied
PiecesStayOnBoardWitness ==
    /\ last.legal
    /\ last.target = "off map"
    /\ last.selected # nullptr
    /\ last.applied = "none"
    /\ pointerToSelectedTile = nullptr

-----------------------------------------------------------------------------
(* C36: hand index in bounds.  Whenever CheckInputInPlayerField treats a   *)
(* hand slot as selected, the index it reads the inventory and the tile    *)
(* data with is one of 0..DIFFERENT_PIECES_COUNT - 1.                      *)
HandIndexInBounds ==
    isPlayerTileSelected
        => indexOfPlayerTileSelected \in 0..(DIFFERENT_PIECES_COUNT - 1)

-----------------------------------------------------------------------------
\* the coordinates of the map and of the cells around it
NearCords ==
    {HexCords(q, r) : q \in (-1)..hexagonHorizontalCount,
                      r \in (-(hexagonHorizontalCount \div 2) - 1)..HEXAGON_VERTICAL_COUNT}

(* C37: adjacency is well-formed.  For every coordinate c of the map and   *)
(* around it GetNeighborsOfTile returns 6 distinct coordinates other than  *)
(* c; b is a neighbour of a exactly when a is a neighbour of b; and on     *)
(* every reachable board GetOccupiedNeighborsOfTile and                    *)
(* GetEmptyNeighborsOfTile are disjoint and together are the neighbours    *)
(* that are keys of gameMap.                                               *)
AdjacencyWellFormed ==
    \A c \in NearCords :
        LET neighbors == GetNeighborsOfTile(gameMap, c)
            occupied == GetOccupiedNeighborsOfTile(gameMap, c)
            empty == GetEmptyNeighborsOfTile(gameMap, c)
        IN  /\ Cardinality(neighbors) = SIZE_OF_AXIAL_VECTORS
            /\ c \notin neighbors
            \* with c and b exchanged this is the converse as well
            /\ \A b \in neighbors : c \in GetNeighborsOfTile(gameMap, b)
            /\ occupied \cap empty = {}
            /\ occupied \cup empty = neighbors \cap DOMAIN gameMap

\* a tile in the first or last column has occupied neighbours, empty
\* neighbours and neighbours outside the map
AdjacencyWellFormedWitness ==
    \E c \in OccupiedCells :
        /\ GetOccupiedNeighborsOfTile(gameMap, c) # {}
        /\ GetEmptyNeighborsOfTile(gameMap, c) # {}
        /\ GetNeighborsOfTile(gameMap, c) \ DOMAIN gameMap # {}
        /\ Cardinality(GetOccupiedNeighborsOfTile(gameMap, c))
             + Cardinality(GetEmptyNeighborsOfTile(gameMap, c)) < SIZE_OF_AXIAL_VECTORS

====
